---- MODULE Spec2Model ----
(***************************************************************************)
(* A model of the go-ssz serializer, deserializer and hash-tree-root       *)
(* engine.  Go values are modelled as tagged trees, Go types as entries of *)
(* a type table (so that a type can refer to itself through a pointer),    *)
(* byte buffers as sequences of bytes with 0-based positions p stored at   *)
(* index p + 1, and SHA-256 as a free (collision-free) binary constructor. *)
(***************************************************************************)
EXTENDS Integers, Sequences, FiniteSets, TLC

(***************************************************************************)
(* Program constants.                                                      *)
(***************************************************************************)
BytesPerLengthOffset == 4

BytesPerChunk == 32

(***************************************************************************)
(* Go values.  A uint/bool is Num(n); a slice, an array or a struct is     *)
(* Lst(<<elements or fields>>); a pointer is NilPtr or Ptr(v).             *)
(***************************************************************************)
Num(n) == [tag |-> "num", n |-> n, s |-> <<>>]

Lst(s) == [tag |-> "seq", n |-> 0, s |-> s]

NilPtr == [tag |-> "nil", n |-> 0, s |-> <<>>]

Ptr(v) == [tag |-> "ptr", n |-> 0, s |-> <<v>>]

Bytes(s) == Lst([i \in 1..Len(s) |-> Num(s[i])])

IsNil(v) == v.tag = "nil"

Elem(v) == v.s[1]

(***************************************************************************)
(* Go types.  T(...) builds a type; Fld(...) a struct field as structFields*)
(* reports it: rtyp is the declared Go type of the field (val.Field(i)     *)
(* has this type), typ the descriptor after the ssz-size tag is applied,   *)
(* capacity the ssz-max tag (0 when absent).                               *)
(***************************************************************************)
T(kind, len, elem, fields) == [kind |-> kind, len |-> len, elem |-> elem, fields |-> fields]

Fld(name, rtyp, typ, capacity) == [name |-> name, rtyp |-> rtyp, typ |-> typ, capacity |-> capacity]

TypeNames ==
  { "bool", "uint8", "uint16", "uint32", "uint64", "string",
    "[]byte", "[2]byte", "[4]byte", "[0]byte", "[]uint16", "[2]uint16", "[][]byte", "[][2]byte",
    "sampleItem", "varsItem", "fixedItem", "ptrItem", "nestItem", "badItem", "node",
    "*sampleItem", "*fixedItem", "*node", "[]*sampleItem", "[]fixedItem",
    "[1]string", "[]string", "[5]uint64", "[]uint64", "badNode", "*badNode" }

\* the descriptor of every type, by name
Types ==
  [name \in TypeNames |->
    CASE name = "bool"          -> T("bool", 0, "", <<>>)
      [] name = "uint8"         -> T("uint8", 0, "", <<>>)
      [] name = "uint16"        -> T("uint16", 0, "", <<>>)
      [] name = "uint32"        -> T("uint32", 0, "", <<>>)
      [] name = "uint64"        -> T("uint64", 0, "", <<>>)
      [] name = "string"        -> T("string", 0, "", <<>>)
      [] name = "[]byte"        -> T("slice", 0, "uint8", <<>>)
      [] name = "[0]byte"       -> T("array", 0, "uint8", <<>>)
      [] name = "[2]byte"       -> T("array", 2, "uint8", <<>>)
      [] name = "[4]byte"       -> T("array", 4, "uint8", <<>>)
      [] name = "[]uint16"      -> T("slice", 0, "uint16", <<>>)
      [] name = "[2]uint16"     -> T("array", 2, "uint16", <<>>)
      [] name = "[][]byte"      -> T("slice", 0, "[]byte", <<>>)
      [] name = "[][2]byte"     -> T("slice", 0, "[2]byte", <<>>)
      [] name = "[]*sampleItem" -> T("slice", 0, "*sampleItem", <<>>)
      [] name = "[]fixedItem"   -> T("slice", 0, "fixedItem", <<>>)
      [] name = "[1]string"     -> T("array", 1, "string", <<>>)
      [] name = "[]string"      -> T("slice", 0, "string", <<>>)
      [] name = "[5]uint64"     -> T("array", 5, "uint64", <<>>)
      [] name = "[]uint64"      -> T("slice", 0, "uint64", <<>>)
      [] name = "*sampleItem"   -> T("ptr", 0, "sampleItem", <<>>)
      [] name = "*fixedItem"    -> T("ptr", 0, "fixedItem", <<>>)
      [] name = "*node"         -> T("ptr", 0, "node", <<>>)
      [] name = "*badNode"      -> T("ptr", 0, "badNode", <<>>)
      [] name = "sampleItem"    ->
           T("struct", 0, "", << Fld("Slot", "uint64", "uint64", 0),
                                 Fld("IsNew", "bool", "bool", 0),
                                 Fld("Root", "[]byte", "[]byte", 0) >>)
      [] name = "varsItem"      ->
           T("struct", 0, "", << Fld("HistoricalRoots", "[][]byte", "[][2]byte", 2) >>)
      [] name = "fixedItem"     ->
           T("struct", 0, "", << Fld("A", "uint8", "uint8", 0),
                                 Fld("B", "uint16", "uint16", 0) >>)
      [] name = "ptrItem"       ->
           T("struct", 0, "", << Fld("X", "uint8", "uint8", 0),
                                 Fld("P", "*fixedItem", "*fixedItem", 0),
                                 Fld("Y", "uint8", "uint8", 0) >>)
      [] name = "nestItem"      ->
           T("struct", 0, "", << Fld("X", "uint8", "uint8", 0),
                                 Fld("L", "[][]byte", "[][]byte", 0) >>)
      [] name = "badItem"       ->
           T("struct", 0, "", << Fld("X", "uint8", "uint8", 0),
                                 Fld("S", "string", "string", 0) >>)
      [] name = "node"          ->
           T("struct", 0, "", << Fld("V", "uint8", "uint8", 0),
                                 Fld("Next", "*node", "*node", 0) >>)
      [] name = "badNode"       ->
           T("struct", 0, "", << Fld("Next", "*badNode", "*badNode", 0),
                                 Fld("S", "string", "string", 0) >>)]

\* the descriptors reflect holds for the types of the program: set when the
\* program starts, never changed
VARIABLE types

TypeDef(name) == types[name]

Kind(t) == TypeDef(t).kind

ElemT(t) == TypeDef(t).elem

structFields(t) == TypeDef(t).fields

isBasicType(kind) == kind \in {"bool", "uint8", "uint16", "uint32", "uint64"}

isBasicTypeArray(t, kind) == kind = "array" /\ isBasicType(Kind(ElemT(t)))

RECURSIVE isVariableSizeType(_)
RECURSIVE AnyVariableField(_, _)
AnyVariableField(fs, i) ==
  IF i > Len(fs) THEN FALSE
  ELSE isVariableSizeType(fs[i].typ) \/ AnyVariableField(fs, i + 1)

isVariableSizeType(t) ==
  LET kind == Kind(t) IN
  CASE isBasicType(kind)  -> FALSE
    [] kind = "slice"     -> TRUE
    [] kind = "array"     -> isVariableSizeType(ElemT(t))
    [] kind = "struct"    -> AnyVariableField(structFields(t), 1)
    [] kind = "ptr"       -> isVariableSizeType(ElemT(t))
    [] OTHER              -> FALSE

(***************************************************************************)
(* Bytes.  LE(x, w) is the w-byte little-endian encoding of x modulo 256^w *)
(* (\div floors and % is non-negative, so a negative x encodes as its      *)
(* two's complement: the wrap of an unsigned subtraction).                 *)
(***************************************************************************)
RECURSIVE LE(_, _)
LE(x, w) == IF w = 0 THEN <<>> ELSE <<x % 256>> \o LE(x \div 256, w - 1)

RECURSIVE FromLE(_)
FromLE(bs) == IF Len(bs) = 0 THEN 0 ELSE bs[1] + 256 * FromLE(Tail(bs))

Zeros(n) == [i \in 1..n |-> 0]

RawBytes(v) == [i \in 1..Len(v.s) |-> v.s[i].n % 256]

WriteAt(buf, p, bs) ==
  [i \in 1..Len(buf) |-> IF i > p /\ i <= p + Len(bs) THEN bs[i - p] ELSE buf[i]]

BasicWidth(kind) ==
  CASE kind = "bool" -> 1 [] kind = "uint8" -> 1 [] kind = "uint16" -> 2
    [] kind = "uint32" -> 4 [] kind = "uint64" -> 8 [] OTHER -> 0

(***************************************************************************)
(* Size oracle: the serialized length of value v described by type t,      *)
(* offset headers of variable-size composites included; an absent pointer  *)
(* has length 0.                                                           *)
(***************************************************************************)
RECURSIVE SizeOf(_, _)
RECURSIVE SizeOfElems(_, _, _)
RECURSIVE SizeOfFields(_, _, _)
SizeOfElems(v, et, i) ==
  IF i > Len(v.s) THEN 0
  ELSE (IF isVariableSizeType(et) THEN BytesPerLengthOffset ELSE 0)
       + SizeOf(v.s[i], et) + SizeOfElems(v, et, i + 1)

SizeOfFields(v, fs, i) ==
  IF i > Len(fs) THEN 0
  ELSE (IF isVariableSizeType(fs[i].typ) THEN BytesPerLengthOffset ELSE 0)
       + SizeOf(v.s[i], fs[i].typ) + SizeOfFields(v, fs, i + 1)

SizeOf(v, t) ==
  LET kind == Kind(t) IN
  CASE isBasicType(kind)           -> BasicWidth(kind)
    [] kind \in {"slice", "array"} -> SizeOfElems(v, ElemT(t), 1)
    [] kind = "struct"             -> SizeOfFields(v, structFields(t), 1)
    [] kind = "ptr"                -> IF IsNil(v) THEN 0 ELSE SizeOf(Elem(v), ElemT(t))
    [] OTHER                       -> 0

determineSize(v, rt) == SizeOf(v, rt)

determineFixedSize(v, t) == SizeOf(v, t)

(***************************************************************************)
(* Marshalers.  Each takes the value v, its Go type rt (val.Type()), the   *)
(* descriptor typ, the buffer and the start offset, and yields the returned*)
(* cursor, the buffer after its writes and the number of marshalers run;   *)
(* st is "ok", "err" (an error is returned) or "panic" (a write outside    *)
(* the buffer).                                                            *)
(***************************************************************************)
MOk(idx, buf, calls) == [st |-> "ok", idx |-> idx, buf |-> buf, calls |-> calls]

MErr(calls) == [st |-> "err", idx |-> 0, buf |-> <<>>, calls |-> calls]

MPanic(calls) == [st |-> "panic", idx |-> 0, buf |-> <<>>, calls |-> calls]

\* a copy that extends the buffer when the bytes do not fit, as append would
CopyAtGrowing(buf, p, bs) ==
  LET room == IF p + Len(bs) > Len(buf) THEN buf \o Zeros(p + Len(bs) - Len(buf)) ELSE buf
  IN  MOk(p + Len(bs), WriteAt(room, p, bs), 1)

\* copy(buf[p:p+len(bs)], bs) followed by "return p + len(bs)"
CopyAt(buf, p, bs) ==
  IF p + Len(bs) > Len(buf) THEN MPanic(1) ELSE MOk(p + Len(bs), WriteAt(buf, p, bs), 1)

newMarshalBool(v, buf, startOffset) ==
  CopyAt(buf, startOffset, IF v.n # 0 THEN <<1>> ELSE <<0>>)

newMarshalUint8(v, buf, startOffset) == CopyAt(buf, startOffset, LE(v.n, 1))

newMarshalUint16(v, buf, startOffset) == CopyAt(buf, startOffset, LE(v.n, 2))

newMarshalUint32(v, buf, startOffset) == CopyAt(buf, startOffset, LE(v.n, 4))

newMarshalUint64(v, buf, startOffset) == CopyAt(buf, startOffset, LE(v.n, 8))

newMarshalByteSlice(v, buf, startOffset) == CopyAt(buf, startOffset, RawBytes(v))

newMarshalByteArray(v, buf, startOffset) == CopyAt(buf, startOffset, RawBytes(v))

newmakePtrNilCursor(startOffset) == 0

\* the result r of a call, handed to the code K that follows the call
Then(r, K(_)) == K(r)

RECURSIVE newMakeMarshaler(_, _, _, _, _)
RECURSIVE BasicSliceLoop(_, _, _, _, _, _, _)
RECURSIVE CompositeSliceLoop(_, _, _, _, _, _, _, _, _)
RECURSIVE StructFixedLength(_, _, _)
RECURSIVE StructLoop(_, _, _, _, _, _, _, _)

\* the loop of newmakeBasicSliceMarshaler and of the fixed-size branch of
\* newmakeCompositeSliceMarshaler, from element i with cursor index
BasicSliceLoop(v, rt, typ, buf, index, i, calls) ==
  IF i > Len(v.s) THEN MOk(index, buf, calls)
  ELSE Then(newMakeMarshaler(v.s[i], ElemT(rt), ElemT(typ), buf, index), LAMBDA r :
       IF r.st = "ok" THEN BasicSliceLoop(v, rt, typ, r.buf, r.idx, i + 1, calls + r.calls)
       ELSE [r EXCEPT !.calls = calls + r.calls])

newmakeBasicSliceMarshaler(v, rt, typ, buf, startOffset) ==
  BasicSliceLoop(v, rt, typ, buf, startOffset, 1, 1)

\* the variable-size branch of newmakeCompositeSliceMarshaler, from element i
CompositeSliceLoop(v, rt, typ, buf, startOffset, fixedIndex, currentOffsetIndex, i, calls) ==
  IF i > Len(v.s) THEN MOk(currentOffsetIndex, buf, calls)
  ELSE Then(newMakeMarshaler(v.s[i], ElemT(rt), ElemT(typ), buf, currentOffsetIndex), LAMBDA r :
       IF r.st # "ok" THEN [r EXCEPT !.calls = calls + r.calls]
       ELSE IF fixedIndex + BytesPerLengthOffset > Len(r.buf) THEN MPanic(calls + r.calls)
       ELSE CompositeSliceLoop(v, rt, typ,
              WriteAt(r.buf, fixedIndex, LE(currentOffsetIndex - startOffset, BytesPerLengthOffset)),
              startOffset, fixedIndex + BytesPerLengthOffset, r.idx, i + 1, calls + r.calls))

newmakeCompositeSliceMarshaler(v, rt, typ, buf, startOffset) ==
  IF ~isVariableSizeType(typ)
  THEN BasicSliceLoop(v, rt, typ, buf, startOffset, 1, 1)
  ELSE CompositeSliceLoop(v, rt, typ, buf, startOffset, startOffset,
                          startOffset + Len(v.s) * BytesPerLengthOffset, 1, 1)

StructFixedLength(v, fs, i) ==
  IF i > Len(fs) THEN 0
  ELSE (IF isVariableSizeType(fs[i].typ) THEN BytesPerLengthOffset
        ELSE determineFixedSize(v.s[i], fs[i].typ))
       + StructFixedLength(v, fs, i + 1)

\* the second loop of newmakeStructMarshaler, from field i
StructLoop(v, fs, buf, startOffset, fixedIndex, currentOffsetIndex, i, calls) ==
  IF i > Len(fs) THEN MOk(currentOffsetIndex, buf, calls)
  ELSE LET f == fs[i] IN
       IF ~isVariableSizeType(f.typ)
       THEN Then(newMakeMarshaler(v.s[i], f.rtyp, f.typ, buf, fixedIndex), LAMBDA r :
            IF r.st # "ok" THEN [r EXCEPT !.calls = calls + r.calls]
            ELSE StructLoop(v, fs, r.buf, startOffset, r.idx, currentOffsetIndex, i + 1,
                            calls + r.calls))
       ELSE Then(newMakeMarshaler(v.s[i], f.rtyp, f.typ, buf, currentOffsetIndex), LAMBDA r :
            IF r.st # "ok" THEN [r EXCEPT !.calls = calls + r.calls]
            ELSE IF fixedIndex + BytesPerLengthOffset > Len(r.buf) THEN MPanic(calls + r.calls)
            ELSE StructLoop(v, fs,
                   WriteAt(r.buf, fixedIndex,
                           LE(currentOffsetIndex - startOffset, BytesPerLengthOffset)),
                   startOffset, fixedIndex + BytesPerLengthOffset, r.idx, i + 1,
                   calls + r.calls))

newmakeStructMarshaler(v, rt, typ, buf, startOffset) ==
  LET fields == structFields(typ)
      fixedLength == StructFixedLength(v, fields, 1)
  IN  StructLoop(v, fields, buf, startOffset, startOffset, startOffset + fixedLength, 1, 1)

newmakePtrMarshaler(v, rt, typ, buf, startOffset) ==
  IF IsNil(v) THEN MOk(newmakePtrNilCursor(startOffset), buf, 1)
  ELSE Then(newMakeMarshaler(Elem(v), ElemT(rt), ElemT(typ), buf, startOffset), LAMBDA r :
       [r EXCEPT !.calls = r.calls + 1])

newMakeMarshaler(v, rt, typ, buf, startOffset) ==
  LET kind == Kind(typ) IN
  IF kind = "bool" THEN newMarshalBool(v, buf, startOffset)
  ELSE IF kind = "uint8" THEN newMarshalUint8(v, buf, startOffset)
  ELSE IF kind = "uint16" THEN newMarshalUint16(v, buf, startOffset)
  ELSE IF kind = "uint32" THEN newMarshalUint32(v, buf, startOffset)
  ELSE IF kind = "uint64" THEN newMarshalUint64(v, buf, startOffset)
  ELSE IF kind = "slice" /\ Kind(ElemT(rt)) = "uint8"
    THEN newMarshalByteSlice(v, buf, startOffset)
  ELSE IF kind = "array" /\ Kind(ElemT(rt)) = "uint8"
    THEN newMarshalByteArray(v, buf, startOffset)
  ELSE IF kind = "slice" /\ isBasicTypeArray(ElemT(rt), Kind(ElemT(rt)))
    THEN newmakeBasicSliceMarshaler(v, rt, typ, buf, startOffset)
  ELSE IF kind = "slice" /\ isBasicType(Kind(ElemT(rt)))
    THEN newmakeBasicSliceMarshaler(v, rt, typ, buf, startOffset)
  ELSE IF kind = "slice" /\ ~isVariableSizeType(ElemT(rt))
    THEN newmakeBasicSliceMarshaler(v, rt, typ, buf, startOffset)
  ELSE IF kind = "slice" \/ kind = "array"
    THEN newmakeCompositeSliceMarshaler(v, rt, typ, buf, startOffset)
  ELSE IF kind = "struct" THEN newmakeStructMarshaler(v, rt, typ, buf, startOffset)
  ELSE IF kind = "ptr" THEN newmakePtrMarshaler(v, rt, typ, buf, startOffset)
  ELSE MErr(1)

(***************************************************************************)
(* Merkleization.  A 32-byte chunk is Raw(<<32 bytes>>); the SHA-256 of    *)
(* the 64-byte concatenation of two chunks is the free term Sha(l, r).     *)
(* A leaf handed to pack is Raw(bytes) of any length or a root.            *)
(***************************************************************************)
Raw(bs) == [b |-> bs, kids |-> <<>>]

Sha(l, r) == [b |-> <<>>, kids |-> <<l, r>>]

zeros32 == Raw(Zeros(BytesPerChunk))

IsRaw(d) == d.kids = <<>>

RECURSIVE Concat(_)
Concat(leaves) == IF Len(leaves) = 0 THEN <<>> ELSE Head(leaves).b \o Concat(Tail(leaves))

PadTo(bs, n) == bs \o Zeros(n - Len(bs))

RECURSIVE Chunkify(_)
Chunkify(bs) ==
  IF Len(bs) = 0 THEN <<>>
  ELSE IF Len(bs) <= BytesPerChunk THEN << Raw(PadTo(bs, BytesPerChunk)) >>
  ELSE << Raw(SubSeq(bs, 1, BytesPerChunk)) >> \o Chunkify(SubSeq(bs, BytesPerChunk + 1, Len(bs)))

pack(leaves) ==
  IF \A i \in 1..Len(leaves) : IsRaw(leaves[i]) THEN Chunkify(Concat(leaves)) ELSE leaves

RECURSIVE CeilLog2(_)
CeilLog2(n) == IF n <= 1 THEN 0 ELSE 1 + CeilLog2((n + 1) \div 2)

RECURSIVE Pow2(_)
Pow2(d) == IF d = 0 THEN 1 ELSE 2 * Pow2(d - 1)

RECURSIVE MerkleTree(_, _)
MerkleTree(chunks, d) ==
  IF d = 0 THEN (IF Len(chunks) = 0 THEN zeros32 ELSE chunks[1])
  ELSE LET half == Pow2(d - 1)
           cut == IF Len(chunks) < half THEN Len(chunks) ELSE half
       IN  Sha(MerkleTree(SubSeq(chunks, 1, cut), d - 1),
               MerkleTree(SubSeq(chunks, cut + 1, Len(chunks)), d - 1))

\* [root, err]: err when the chunks do not fit under the limit
bitwiseMerkleize(chunks, limit, hasLimit) ==
  LET L == IF hasLimit THEN limit ELSE Len(chunks)
      d == CeilLog2(IF L = 0 THEN 1 ELSE L)
  IN  IF Len(chunks) > Pow2(d) THEN [root |-> zeros32, err |-> TRUE]
      ELSE [root |-> MerkleTree(chunks, d), err |-> FALSE]

mixInLength(root, length) == Sha(root, Raw(length))

LengthChunk(n) == PadTo(LE(n, 8), BytesPerChunk)

(***************************************************************************)
(* The hash cache: an LRU list of entries, least recently used first,      *)
(* keyed by (content, descriptor, maxCapacity), of at most HashCacheSize   *)
(* entries.                                                                *)
(***************************************************************************)
HashCacheSize == 1

CacheKey(v, typ, maxCapacity) == [v |-> v, typ |-> typ, cap |-> maxCapacity]

CacheIndex(cache, key) ==
  IF \E i \in 1..Len(cache) : cache[i].key = key
  THEN CHOOSE i \in 1..Len(cache) : cache[i].key = key
  ELSE 0

Without(cache, i) == SubSeq(cache, 1, i - 1) \o SubSeq(cache, i + 1, Len(cache))

CacheTouch(cache, i) == Append(Without(cache, i), cache[i])

CacheAdd(cache, key, root) ==
  LET i == CacheIndex(cache, key)
      rest == IF i # 0 THEN Without(cache, i)
              ELSE IF Len(cache) >= HashCacheSize THEN Tail(cache) ELSE cache
  IN  Append(rest, [key |-> key, root |-> root])

(***************************************************************************)
(* Hashers.  A hashing call threads a context: the hash cache, the values  *)
(* its successive reads of useCache see (flags; a read after the last one  *)
(* listed sees the last), the reads before which other goroutines' inserts *)
(* have pushed every entry out of the hash cache (evicts), and counts of   *)
(* the reads, cache lookups and hashers run so far.  A hasher yields st    *)
(* ("ok", "err" or "panic"), the root (all zero unless "ok") and the       *)
(* context afterwards.                                                     *)
(***************************************************************************)
RacingCtx(cache, flags, evicts) ==
  [cache |-> cache, flags |-> flags, evicts |-> evicts, reads |-> 0, lookups |-> 0,
   hashers |-> 0]

NewCtx(cache, flags) == RacingCtx(cache, flags, {})

\* the context at its next read of useCache
AtNextRead(ctx) ==
  [ctx EXCEPT !.reads = @ + 1,
              !.cache = IF (ctx.reads + 1) \in ctx.evicts THEN <<>> ELSE @]

HOk(root, ctx) == [st |-> "ok", root |-> root, ctx |-> ctx]

HFail(st, ctx) == [st |-> st, root |-> zeros32, ctx |-> ctx]

ReadUseCache(ctx) ==
  ctx.flags[IF ctx.reads + 1 <= Len(ctx.flags) THEN ctx.reads + 1 ELSE Len(ctx.flags)]

Merkleized(m, ctx) == IF m.err THEN HFail("err", ctx) ELSE HOk(m.root, ctx)

RECURSIVE newMakeHasher(_, _, _, _, _)
RECURSIVE newLookup(_, _, _, _, _)
RECURSIVE ElemRoots(_, _, _, _, _, _, _)
RECURSIVE BasicSliceLeaves(_, _, _, _, _, _)
RECURSIVE FieldRoots(_, _, _, _, _)

\* the cached branch handing the lookup the value's Go type in place of the
\* descriptor, so that an ssz-size tag is lost on that branch only
HashOrLookupDescriptorDropped(v, rt, typ, maxCapacity, ctx) ==
  LET c == AtNextRead(ctx) IN
  IF ReadUseCache(ctx) THEN newLookup(v, rt, rt, maxCapacity, c)
  ELSE newMakeHasher(v, rt, typ, maxCapacity, c)

\* the cached branch asking for capacity 0 whatever the caller's capacity, as
\* HashTreeRoot's call does
HashOrLookupCapacityDropped(v, rt, typ, maxCapacity, ctx) ==
  LET c == AtNextRead(ctx) IN
  IF ReadUseCache(ctx) THEN newLookup(v, rt, typ, 0, c)
  ELSE newMakeHasher(v, rt, typ, maxCapacity, c)

\* the lookup made whatever the read of useCache sees
HashOrLookupFlagIgnored(v, rt, typ, maxCapacity, ctx) ==
  newLookup(v, rt, typ, maxCapacity, AtNextRead(ctx))

\* "if useCache { hashCache.newLookup(...) } else { newMakeHasher(...) }"
HashOrLookup(v, rt, typ, maxCapacity, ctx) ==
  LET c == AtNextRead(ctx) IN
  IF ReadUseCache(ctx) THEN newLookup(v, rt, typ, maxCapacity, c)
  ELSE newMakeHasher(v, rt, typ, maxCapacity, c)

newLookup(v, rt, typ, maxCapacity, ctx) ==
  LET key == CacheKey(v, typ, maxCapacity)
      c == [ctx EXCEPT !.lookups = @ + 1]
      i == CacheIndex(c.cache, key)
  IN  IF i # 0 THEN HOk(c.cache[i].root, [c EXCEPT !.cache = CacheTouch(@, i)])
      ELSE Then(newMakeHasher(v, rt, typ, maxCapacity, c), LAMBDA r :
           IF r.st # "ok" THEN r
           ELSE [r EXCEPT !.ctx.cache = CacheAdd(@, key, r.root)])

\* the basic hasher merkleizing under the limit 1
newMakeBasicTypeHasherLimitOne(v, rt, typ, maxCapacity, ctx) ==
  Then(newMakeMarshaler(v, rt, typ, Zeros(determineSize(v, rt)), 0), LAMBDA m :
  IF m.st # "ok" THEN HFail(m.st, ctx)
  ELSE Merkleized(bitwiseMerkleize(pack(<< Raw(m.buf) >>), 1, TRUE), ctx))

newMakeBasicTypeHasher(v, rt, typ, maxCapacity, ctx) ==
  Then(newMakeMarshaler(v, rt, typ, Zeros(determineSize(v, rt)), 0), LAMBDA m :
  IF m.st # "ok" THEN HFail(m.st, ctx)
  ELSE Merkleized(bitwiseMerkleize(pack(<< Raw(m.buf) >>), 1, FALSE), ctx))

\* the element loop of the array and composite-slice hashers: the roots of the
\* elements from i on, each hashed with capacity 0; with checked, the first
\* failing element ends the loop, otherwise its all-zero root is kept
ElemRoots(v, rt, typ, i, roots, ctx, checked) ==
  IF i > Len(v.s) THEN [st |-> "ok", roots |-> roots, ctx |-> ctx]
  ELSE Then(HashOrLookup(v.s[i], ElemT(rt), ElemT(typ), 0, ctx), LAMBDA r :
       IF r.st = "panic" \/ (checked /\ r.st # "ok")
       THEN [st |-> r.st, roots |-> roots, ctx |-> r.ctx]
       ELSE ElemRoots(v, rt, typ, i + 1, Append(roots, r.root), r.ctx, checked))

newBasicArrayHasher(v, rt, typ, maxCapacity, ctx) ==
  Then(ElemRoots(v, rt, typ, 1, <<>>, ctx, FALSE), LAMBDA e :
  IF e.st # "ok" THEN HFail(e.st, e.ctx)
  ELSE LET chunks == IF Len(v.s) = 0 THEN <<>> ELSE pack(e.roots) IN
       Merkleized(bitwiseMerkleize(chunks, 1, FALSE), e.ctx))

ElemSize(typ) ==
  IF isBasicType(Kind(ElemT(typ))) THEN BasicWidth(Kind(ElemT(typ))) ELSE BytesPerChunk

newCompositeArrayHasher(v, rt, typ, maxCapacity, ctx) ==
  LET limit == (Len(v.s) * ElemSize(typ) + 31) \div 32 IN
  Then(ElemRoots(v, rt, typ, 1, <<>>, ctx, FALSE), LAMBDA e :
      IF e.st # "ok" THEN HFail(e.st, e.ctx)
      ELSE LET chunks == IF Len(v.s) = 0 THEN <<>> ELSE pack(e.roots) IN
           Merkleized(bitwiseMerkleize(chunks, limit, TRUE), e.ctx))

\* the loop of newBasicSliceHasher: a basic element is marshaled into its own
\* buffer, any other is hashed
BasicSliceLeaves(v, rt, typ, i, leaves, ctx) ==
  IF i > Len(v.s) THEN [st |-> "ok", roots |-> leaves, ctx |-> ctx]
  ELSE IF isBasicType(Kind(ElemT(rt)))
  THEN Then(newMakeMarshaler(v.s[i], ElemT(rt), ElemT(typ),
                             Zeros(determineSize(v.s[i], ElemT(rt))), 0), LAMBDA m :
       IF m.st # "ok" THEN [st |-> m.st, roots |-> leaves, ctx |-> ctx]
       ELSE BasicSliceLeaves(v, rt, typ, i + 1, Append(leaves, Raw(m.buf)), ctx))
  ELSE Then(HashOrLookup(v.s[i], ElemT(rt), ElemT(typ), 0, ctx), LAMBDA r :
       IF r.st # "ok" THEN [st |-> r.st, roots |-> leaves, ctx |-> r.ctx]
       ELSE BasicSliceLeaves(v, rt, typ, i + 1, Append(leaves, r.root), r.ctx))

BasicSliceLimit(typ, maxCapacity) ==
  LET limit == (maxCapacity * ElemSize(typ) + 31) \div 32 IN
  IF limit = 0 THEN 1 ELSE limit

newBasicSliceHasher(v, rt, typ, maxCapacity, ctx) ==
  Then(BasicSliceLeaves(v, rt, typ, 1, <<>>, ctx), LAMBDA e :
  IF e.st # "ok" THEN HFail(e.st, e.ctx)
  ELSE LET m == bitwiseMerkleize(pack(e.roots), BasicSliceLimit(typ, maxCapacity), TRUE) IN
       IF m.err THEN HFail("err", e.ctx)
       ELSE HOk(mixInLength(m.root, LengthChunk(Len(v.s))), e.ctx))

CompositeSliceLimit(v, maxCapacity) == IF maxCapacity = 0 THEN Len(v.s) ELSE maxCapacity

newCompositeSliceHasher(v, rt, typ, maxCapacity, ctx) ==
  IF Len(v.s) = 0 /\ maxCapacity = 0
  THEN LET m == bitwiseMerkleize(<<>>, 0, TRUE) IN
       IF m.err THEN HFail("err", ctx)
       ELSE HOk(mixInLength(m.root, Zeros(BytesPerChunk)), ctx)
  ELSE Then(ElemRoots(v, rt, typ, 1, <<>>, ctx, TRUE), LAMBDA e :
       IF e.st # "ok" THEN HFail(e.st, e.ctx)
       ELSE LET m == bitwiseMerkleize(pack(e.roots), CompositeSliceLimit(v, maxCapacity), TRUE) IN
            IF m.err THEN HFail("err", e.ctx)
            ELSE HOk(mixInLength(m.root, LengthChunk(Len(v.s))), e.ctx))

FieldCapacityZero(f) == 0

\* f.capacity, the ssz-max of the field
FieldCapacity(f) == f.capacity

\* the loop of makeFieldsHasher, from field i
FieldRoots(v, fs, i, roots, ctx) ==
  IF i > Len(fs) THEN [st |-> "ok", roots |-> roots, ctx |-> ctx]
  ELSE Then(HashOrLookup(v.s[i], fs[i].rtyp, fs[i].typ, FieldCapacity(fs[i]), ctx), LAMBDA r :
       IF r.st # "ok" THEN [st |-> r.st, roots |-> roots, ctx |-> r.ctx]
       ELSE FieldRoots(v, fs, i + 1, Append(roots, r.root), r.ctx))

makeFieldsHasher(v, fields, ctx) ==
  Then(FieldRoots(v, fields, 1, <<>>, ctx), LAMBDA e :
  IF e.st # "ok" THEN HFail(e.st, e.ctx)
  ELSE Merkleized(bitwiseMerkleize(e.roots, Len(fields), TRUE), e.ctx))

newMakeStructHasher(v, rt, typ, maxCapacity, ctx) == makeFieldsHasher(v, structFields(typ), ctx)

\* a pointer hasher without the nil check: val.Elem() of a nil pointer is the
\* zero Value, whose use panics
newMakePtrHasherNoNilCheck(v, rt, typ, maxCapacity, ctx) ==
  IF IsNil(v) THEN HFail("panic", ctx)
  ELSE newMakeHasher(Elem(v), ElemT(rt), ElemT(typ), maxCapacity, ctx)

newMakePtrHasher(v, rt, typ, maxCapacity, ctx) ==
  IF IsNil(v) THEN HOk(zeros32, ctx)
  ELSE newMakeHasher(Elem(v), ElemT(rt), ElemT(typ), maxCapacity, ctx)

newMakeHasher(v, rt, typ, maxCapacity, ctx0) ==
  LET kind == Kind(typ)
      ctx == [ctx0 EXCEPT !.hashers = @ + 1]
  IN
  IF isBasicType(kind) \/ isBasicTypeArray(typ, kind)
    THEN newMakeBasicTypeHasher(v, rt, typ, maxCapacity, ctx)
  ELSE IF kind = "slice" /\ isBasicType(Kind(ElemT(typ)))
    THEN newBasicSliceHasher(v, rt, typ, maxCapacity, ctx)
  ELSE IF kind = "slice" /\ isBasicTypeArray(ElemT(typ), Kind(ElemT(typ)))
    THEN newBasicSliceHasher(v, rt, typ, maxCapacity, ctx)
  ELSE IF kind = "array" /\ isBasicTypeArray(ElemT(typ), Kind(ElemT(typ)))
    THEN newBasicArrayHasher(v, rt, typ, maxCapacity, ctx)
  ELSE IF kind = "slice" /\ ~isBasicType(Kind(ElemT(typ)))
    THEN newCompositeSliceHasher(v, rt, typ, maxCapacity, ctx)
  ELSE IF kind = "array" THEN newCompositeArrayHasher(v, rt, typ, maxCapacity, ctx)
  ELSE IF kind = "struct" THEN newMakeStructHasher(v, rt, typ, maxCapacity, ctx)
  ELSE IF kind = "ptr" THEN newMakePtrHasher(v, rt, typ, maxCapacity, ctx)
  ELSE HFail("err", ctx)

(***************************************************************************)
(* Unmarshalers.  Each takes the input, the destination's type and the     *)
(* start offset and yields the returned cursor, the value stored in the    *)
(* destination and the number of unmarshalers run.  The file holds two     *)
(* drafts of NewUnmarshal: the first dispatches byte slices and byte       *)
(* arrays only, the second scalars only.                                   *)
(***************************************************************************)
UOk(idx, w, calls) == [st |-> "ok", idx |-> idx, w |-> w, calls |-> calls]

UFail(st, w, calls) == [st |-> st, idx |-> 0, w |-> w, calls |-> calls]

RECURSIVE ZeroOf(_)
ZeroOf(t) ==
  LET kind == Kind(t) IN
  CASE isBasicType(kind) -> Num(0)
    [] kind = "slice"    -> Lst(<<>>)
    [] kind = "array"    -> Lst([i \in 1..TypeDef(t).len |-> ZeroOf(ElemT(t))])
    [] kind = "struct"   -> Lst([i \in 1..Len(structFields(t)) |-> ZeroOf(structFields(t)[i].rtyp)])
    [] kind = "ptr"      -> NilPtr
    [] OTHER             -> Num(0)

\* input[startOffset : startOffset + len(input)], spare being the bytes that lie
\* behind the length of input within its capacity: the slice expression panics
\* when its upper index exceeds the capacity
newByteSliceUnmarshaler(input, spare, w, typ, startOffset) ==
  LET offset == startOffset + Len(input) IN
  IF offset > Len(input) + Len(spare) THEN UFail("panic", w, 1)
  ELSE UOk(offset, Bytes(SubSeq(input \o spare, startOffset + 1, offset)), 1)

\* unmarshalBool, unmarshalUint8 ... unmarshalUint64: read the exact width and assign
unmarshalBasic(input, w, kind, startOffset) ==
  LET width == BasicWidth(kind) IN
  IF startOffset + width > Len(input) THEN UFail("err", w, 1)
  ELSE LET n == FromLE(SubSeq(input, startOffset + 1, startOffset + width)) IN
       UOk(startOffset + width, Num(IF kind = "bool" THEN (IF n = 1 THEN 1 ELSE 0) ELSE n), 1)

RECURSIVE newMakeUnmarshaler(_, _, _, _, _)
RECURSIVE BasicArrayLoop(_, _, _, _, _, _, _)

\* the loop of newBasicArrayUnmarshaler, from element i with cursor index
BasicArrayLoop(draft, input, w, typ, index, i, calls) ==
  IF i > Len(w.s) THEN UOk(index, w, calls)
  ELSE Then(newMakeUnmarshaler(draft, input, w.s[i], ElemT(typ), index), LAMBDA r :
       IF r.st # "ok" THEN UFail(r.st, w, calls + r.calls)
       ELSE BasicArrayLoop(draft, input, [w EXCEPT !.s[i] = r.w], typ, r.idx, i + 1,
                           calls + r.calls))

newBasicArrayUnmarshaler(draft, input, w, typ, startOffset) ==
  BasicArrayLoop(draft, input, w, typ, startOffset, 1, 1)

newMakeUnmarshaler(draft, input, w, typ, startOffset) ==
  LET kind == Kind(typ) IN
  IF draft = 1
  THEN IF kind = "slice" /\ Kind(ElemT(typ)) = "uint8"
         THEN newByteSliceUnmarshaler(input, <<>>, w, typ, startOffset)
       ELSE IF kind = "array" /\ Kind(ElemT(typ)) = "uint8"
         THEN newBasicArrayUnmarshaler(draft, input, w, typ, startOffset)
       ELSE UFail("err", w, 1)
  ELSE IF isBasicType(kind) THEN unmarshalBasic(input, w, kind, startOffset)
       ELSE UFail("err", w, 1)

\* the dimensions a destination is shaped to: the outer length, then for every
\* level of the descriptor's element type 0 for a slice and the length of an array
RECURSIVE InnerSizes(_)
InnerSizes(t) ==
  CASE Kind(t) = "slice" -> <<0>> \o InnerSizes(ElemT(t))
    [] Kind(t) = "array" -> <<TypeDef(t).len>> \o InnerSizes(ElemT(t))
    [] OTHER             -> <<>>

\* growSliceFromSizeTags(val, sizes): a fresh slice of val's type with sizes[0]
\* elements, each shaped by the remaining sizes
RECURSIVE growSliceFromSizeTags(_, _)
growSliceFromSizeTags(rt, sizes) ==
  IF sizes = <<>> THEN ZeroOf(rt)
  ELSE Lst([i \in 1..sizes[1] |-> growSliceFromSizeTags(ElemT(rt), Tail(sizes))])

\* reflect.Copy(result, val): the first min(len) elements of val over those of result
Copy(result, val) ==
  Lst([i \in 1..Len(result.s) |-> IF i <= Len(val.s) THEN val.s[i] ELSE result.s[i]])

\* growConcreteSliceType(val, typ, length): val becomes a slice of the given
\* length holding the elements it had
growConcreteSliceType(w, rt, length) ==
  Copy(Lst([i \in 1..length |-> ZeroOf(ElemT(rt))]), w)

\* the loop of newBasicSliceUmmarshaler, from element i (counted from 1) with
\* cursor index
RECURSIVE BasicSliceUnmarshalLoop(_, _, _, _, _, _, _, _, _)
BasicSliceUnmarshalLoop(draft, input, w, rt, typ, index, i, endOffset, calls) ==
  IF i > endOffset THEN UOk(index, w, calls)
  ELSE Then(IF rt = typ THEN growConcreteSliceType(w, rt, i) ELSE w, LAMBDA grown :
       Then(newMakeUnmarshaler(draft, input, grown.s[i], ElemT(rt), index), LAMBDA r :
       IF r.st # "ok" THEN UFail(r.st, [grown EXCEPT !.s[i] = r.w], calls + r.calls)
       ELSE BasicSliceUnmarshalLoop(draft, input, [grown EXCEPT !.s[i] = r.w], rt, typ, r.idx,
                                    i + 1, endOffset, calls + r.calls)))

\* w is the destination, of Go type rt; typ is the descriptor
newBasicSliceUmmarshaler(draft, input, w, rt, typ, startOffset) ==
  IF Len(input) = 0 THEN UOk(0, Lst(<<>>), 1)
  ELSE
    Then(IF rt # typ
           THEN Copy(growSliceFromSizeTags(rt, <<1>> \o InnerSizes(ElemT(typ))), w)
           ELSE growConcreteSliceType(w, rt, 1), LAMBDA first :
    Then(newMakeUnmarshaler(draft, input, first.s[1], ElemT(rt), startOffset), LAMBDA r :
      IF r.st # "ok" THEN UFail(r.st, [first EXCEPT !.s[1] = r.w], 1 + r.calls)
      ELSE IF r.idx - startOffset = 0 THEN UFail("panic", [first EXCEPT !.s[1] = r.w], 1 + r.calls)
      ELSE
        Then(Len(input) \div (r.idx - startOffset), LAMBDA endOffset :
        BasicSliceUnmarshalLoop(
          draft, input,
          IF rt # typ
            THEN Copy(growSliceFromSizeTags(rt, <<endOffset>> \o InnerSizes(ElemT(typ))),
                      [first EXCEPT !.s[1] = r.w])
            ELSE [first EXCEPT !.s[1] = r.w],
          rt, typ, r.idx, 2, endOffset, 1 + r.calls))))

(***************************************************************************)
(* The values the operations are called with.  noValue marks the untyped   *)
(* nil interface; rt is the Go type of v.                                  *)
(***************************************************************************)
Case(rt, v) == [noValue |-> FALSE, rt |-> rt, v |-> v]

UntypedNil == [noValue |-> TRUE, rt |-> "", v |-> NilPtr]

sampleValue(root) == Lst(<< Num(4), Num(1), Bytes(root) >>)

Cases ==
  << UntypedNil,
     Case("bool", Num(1)),
     Case("uint8", Num(7)),
     Case("uint16", Num(258)),
     Case("uint32", Num(65537)),
     Case("uint64", Num(4)),
     Case("[]byte", Bytes(<<1, 2, 3, 4>>)),
     Case("[]byte", Bytes(<<>>)),
     Case("[4]byte", Bytes(<<1, 2, 3, 4>>)),
     Case("[0]byte", Bytes(<<>>)),
     Case("sampleItem", sampleValue(<<1, 2, 3, 4>>)),
     Case("varsItem", Lst(<< Lst(<< Bytes(<<1, 2>>), Bytes(<<3, 4>>) >>) >>)),
     Case("[][2]byte", Lst(<< Bytes(<<1, 2>>), Bytes(<<3, 4>>) >>)),
     Case("[]uint16", Lst(<< Num(1), Num(2) >>)),
     Case("[2]uint16", Lst(<< Num(258), Num(3) >>)),
     Case("[][]byte", Lst(<< Bytes(<<1>>), Bytes(<<>>) >>)),
     Case("[][]byte", Lst(<<>>)),
     Case("nestItem", Lst(<< Num(7), Lst(<< Bytes(<<1>>), Bytes(<<>>) >>) >>)),
     Case("*sampleItem", NilPtr),
     Case("*sampleItem", Ptr(sampleValue(<<1>>))),
     Case("ptrItem", Lst(<< Num(7), NilPtr, Num(9) >>)),
     Case("ptrItem", Lst(<< Num(1), NilPtr, Num(9) >>)),
     Case("ptrItem", Lst(<< Num(7), Ptr(Lst(<< Num(1), Num(2) >>)), Num(9) >>)),
     Case("[]*sampleItem", Lst(<< NilPtr, Ptr(sampleValue(<<1>>)) >>)),
     Case("[]*sampleItem", Lst(<< Ptr(sampleValue(<<1>>)), Ptr(sampleValue(<<>>)) >>)),
     Case("[]fixedItem", Lst(<< Lst(<< Num(1), Num(2) >>), Lst(<< Num(3), Num(4) >>) >>)),
     Case("string", Num(0)),
     Case("badItem", Lst(<< Num(7), Num(0) >>)),
     Case("*node", NilPtr),
     Case("[1]string", Lst(<< Num(0) >>)),
     Case("[]string", Lst(<< Num(0) >>)),
     Case("[5]uint64", Lst(<< Num(1), Num(2), Num(3), Num(4), Num(5) >>)),
     Case("[]uint64", Lst(<< Num(1), Num(2), Num(3), Num(4), Num(5) >>)),
     Case("fixedItem", Lst(<< Num(1), Num(2) >>)) >>

CaseIds == 1..Len(Cases)

(***************************************************************************)
(* State: the useCache flag, the hash cache, the most recent call with its *)
(* result (last), and an earlier call of the run kept for comparison       *)
(* (prev).  Of a call are recorded: the operation, the case it was called  *)
(* with, the capacity, the outcome st ("ok", "err": an error is returned,  *)
(* "panic"), the returned buffer and root, the destination after an        *)
(* unmarshal (w), what was passed as destination (dest) and the type it    *)
(* is of or points to (typ), the case whose marshaled bytes were the input *)
(* of an unmarshal (from), the start offset an unmarshaler was called with *)
(* (start), the cursor it returned (idx), the bytes behind the length of   *)
(* its input within the input's capacity (spare), the Go type of its       *)
(* destination (rt) and the draft of newMakeUnmarshaler it runs with,      *)
(* and how many marshalers, unmarshalers or hashers ran (calls), how often *)
(* useCache was read (reads), what those reads saw (flags), how often the  *)
(* hash cache was consulted (lookups), and whether the call left the hash  *)
(* cache as it was (cacheSame).                                            *)
(***************************************************************************)
VARIABLES useCache, hashCache, last, prev

(***************************************************************************)
(* State of the codec cache: the map sszUtilsCache from a type to the      *)
(* handle of its sszUtils record (0: no entry); the records allocated so   *)
(* far, a handle being a position in records; the reader/writer lock       *)
(* sszUtilsCacheMutex; the goroutines calling cachedSSZUtils, each with    *)
(* its position in cachedSSZUtils (pc), the type asked for, the frames of  *)
(* its calls of cachedSSZUtilsNoAcquireLock (innermost last), what its     *)
(* last call returned (ret) and the map as it was when the call took the   *)
(* write lock (before); and how often generateSSZUtilsForType has run for  *)
(* each type (generated).                                                  *)
(***************************************************************************)
VARIABLES sszUtilsCache, records, sszUtilsCacheMutex, goroutines, generated

codecVars == <<sszUtilsCache, records, sszUtilsCacheMutex, goroutines, generated>>

vars ==
  <<types, useCache, hashCache, last, prev, sszUtilsCache, records, sszUtilsCacheMutex,
    goroutines, generated>>

NoCall ==
  [op |-> "none", case |-> 0, cap |-> 0, st |-> "ok", buf |-> <<>>, root |-> zeros32,
   w |-> NilPtr, dest |-> "", typ |-> "", from |-> 0, calls |-> 0, flags |-> <<>>, reads |-> 0,
   lookups |-> 0, cacheSame |-> TRUE, start |-> 0, idx |-> 0, spare |-> <<>>, rt |-> "",
   draft |-> 0]

NumGoroutines == 2

Goroutines == 1..NumGoroutines

CodecTypes == {"uint8", "string", "node", "*node", "badNode", "*badNode"}

\* the types cachedSSZUtils is called for: a container that refers to itself
\* through a pointer, and one that also holds a string
CodecRoots == {"node", "badNode"}

\* a function slot of an sszUtils record: nil, or the closure built for a type,
\* holding the records it was handed for the types it looked up
NoFunc == [typ |-> "", refs |-> <<>>]

\* new(sszUtils)
ZeroUtils == [marshaler |-> NoFunc, unmarshaler |-> NoFunc, hasher |-> NoFunc]

NoRet == [h |-> 0, err |-> FALSE]

CodecInit ==
  /\ sszUtilsCache = [t \in CodecTypes |-> 0]
  /\ records = <<>>
  /\ sszUtilsCacheMutex = [writer |-> 0, pending |-> 0, readers |-> {}]
  /\ goroutines = [g \in Goroutines |->
                    [pc |-> "idle", typ |-> "", stack |-> <<>>, ret |-> NoRet,
                     before |-> [t \in CodecTypes |-> 0]]]
  /\ generated = [t \in CodecTypes |-> 0]

MaxCapacity == 1

MaxInputLen == 2

InputBytes == {0, 1, 2}

RECURSIVE SeqsUpTo(_, _)
SeqsUpTo(S, n) ==
  IF n = 0 THEN {<<>>}
  ELSE LET shorter == SeqsUpTo(S, n - 1) IN
       shorter \cup {Append(q, x) : q \in {r \in shorter : Len(r) = n - 1}, x \in S}

Inputs == SeqsUpTo(InputBytes, MaxInputLen)

DestTypes == {"[]byte", "[0]byte", "[2]byte", "uint8", "uint16", "sampleItem"}

\* types none of whose fields carries an ssz-size tag: the descriptor of every
\* part is its Go type
Untagged(i) == ~Cases[i].noValue /\ Cases[i].rt # "varsItem"

Init ==
  /\ types = Types
  /\ useCache = TRUE
  /\ hashCache = <<>>
  /\ last = NoCall
  /\ prev = NoCall
  /\ CodecInit

MarshalResult(op, i) ==
  LET c == Cases[i] IN
  IF c.noValue THEN [NoCall EXCEPT !.op = op, !.case = i, !.st = "err"]
  ELSE LET buf == Zeros(determineSize(c.v, c.rt)) IN
       Then(newMakeMarshaler(c.v, c.rt, c.rt, buf, 0), LAMBDA m :
           [NoCall EXCEPT !.op = op, !.case = i, !.st = m.st, !.calls = m.calls,
                          !.buf = IF m.st = "ok" THEN m.buf ELSE <<>>])

Marshal(i) ==
  /\ last' = MarshalResult("Marshal", i)
  /\ UNCHANGED <<useCache, hashCache, prev>>
  /\ UNCHANGED <<types, codecVars>>

NewMarshal(i) ==
  /\ Untagged(i) \/ Cases[i].noValue
  /\ last' = MarshalResult("NewMarshal", i)
  /\ UNCHANGED <<useCache, hashCache, prev>>
  /\ UNCHANGED <<types, codecVars>>

\* NewUnmarshal(input, val) where val is: mode "untypedNil": nil; "nonPointer": a
\* value of type t; "nilPointer": a nil *t; "pointer": a pointer to a zero t
\* NewUnmarshal checking only that a destination is given at all
UnmarshalResultUnchecked(draft, input, mode, t, from) ==
  LET op == IF draft = 1 THEN "NewUnmarshal1" ELSE "NewUnmarshal2"
      r0 == [NoCall EXCEPT !.op = op, !.dest = mode, !.typ = t, !.from = from, !.buf = input]
  IN  IF mode = "untypedNil" THEN [r0 EXCEPT !.st = "err"]
      ELSE Then(newMakeUnmarshaler(draft, input, ZeroOf(t), t, 0), LAMBDA u :
           [r0 EXCEPT !.st = u.st, !.w = u.w, !.calls = u.calls])

UnmarshalResult(draft, input, mode, t, from) ==
  LET op == IF draft = 1 THEN "NewUnmarshal1" ELSE "NewUnmarshal2"
      r0 == [NoCall EXCEPT !.op = op, !.dest = mode, !.typ = t, !.from = from, !.buf = input]
  IN  IF mode # "pointer" THEN [r0 EXCEPT !.st = "err"]
      ELSE Then(newMakeUnmarshaler(draft, input, ZeroOf(t), t, 0), LAMBDA u :
           [r0 EXCEPT !.st = u.st, !.w = u.w, !.calls = u.calls])

NewUnmarshal(draft, input, mode, t) ==
  /\ last' = UnmarshalResult(draft, input, mode, t, 0)
  /\ UNCHANGED <<useCache, hashCache, prev>>
  /\ UNCHANGED <<types, codecVars>>

\* the bytes a successful Marshal returned, unmarshaled into a fresh destination
\* of the marshaled value's type
UnmarshalMarshaled(draft) ==
  /\ last.op \in {"Marshal", "NewMarshal"}
  /\ last.st = "ok"
  /\ last' = UnmarshalResult(draft, last.buf, "pointer", Cases[last.case].rt, last.case)
  /\ UNCHANGED <<useCache, hashCache, prev>>
  /\ UNCHANGED <<types, codecVars>>

ToggleCache(enableTreeCache) ==
  /\ useCache' = enableTreeCache
  /\ UNCHANGED <<hashCache, last, prev>>
  /\ UNCHANGED <<types, codecVars>>

\* the hashing entry points without the check that HashTreeRootWithCapacity is
\* given a slice
HashCallAnyKind(op, i, maxCapacity, flags, evicts) ==
  LET c == Cases[i]
      r0 == [NoCall EXCEPT !.op = op, !.case = i, !.cap = maxCapacity]
  IN  IF c.noValue THEN [res |-> [r0 EXCEPT !.st = "err"], cache |-> hashCache]
      ELSE Then(HashOrLookup(c.v, c.rt, c.rt, maxCapacity, RacingCtx(hashCache, flags, evicts)),
                LAMBDA h :
           [res |-> [r0 EXCEPT !.st = h.st, !.root = h.root, !.calls = h.ctx.hashers,
                               !.flags = flags, !.reads = h.ctx.reads, !.lookups = h.ctx.lookups,
                               !.cacheSame = (h.ctx.cache = hashCache)],
            cache |-> h.ctx.cache])

HashCall(op, i, maxCapacity, flags, evicts) ==
  LET c == Cases[i]
      r0 == [NoCall EXCEPT !.op = op, !.case = i, !.cap = maxCapacity]
  IN  IF c.noValue THEN [res |-> [r0 EXCEPT !.st = "err"], cache |-> hashCache]
      ELSE IF op = "HashTreeRootWithCapacity" /\ Kind(c.rt) # "slice"
      THEN [res |-> [r0 EXCEPT !.st = "err"], cache |-> hashCache]
      ELSE Then(HashOrLookup(c.v, c.rt, c.rt, maxCapacity, RacingCtx(hashCache, flags, evicts)),
                LAMBDA h :
           [res |-> [r0 EXCEPT !.st = h.st, !.root = h.root, !.calls = h.ctx.hashers,
                               !.flags = flags, !.reads = h.ctx.reads, !.lookups = h.ctx.lookups,
                               !.cacheSame = (h.ctx.cache = hashCache)],
            cache |-> h.ctx.cache])

\* a hashing call no other goroutine interferes with
HashResult(op, i, maxCapacity, flags) == HashCall(op, i, maxCapacity, flags, {})

HashTreeRoot(i, flags) ==
  LET h == HashResult("HashTreeRoot", i, 0, flags) IN
  /\ last' = h.res
  /\ hashCache' = h.cache
  /\ UNCHANGED <<useCache, prev>>
  /\ UNCHANGED <<types, codecVars>>

HashTreeRootWithCapacity(i, maxCapacity, flags) ==
  LET h == HashResult("HashTreeRootWithCapacity", i, maxCapacity, flags) IN
  /\ last' = h.res
  /\ hashCache' = h.cache
  /\ UNCHANGED <<useCache, prev>>
  /\ UNCHANGED <<types, codecVars>>

Next ==
  \/ \E i \in CaseIds : Marshal(i)
  \/ \E i \in CaseIds : NewMarshal(i)
  \/ \E draft \in {1, 2}, input \in Inputs, t \in DestTypes,
        mode \in {"untypedNil", "nonPointer", "nilPointer", "pointer"} :
          NewUnmarshal(draft, input, mode, t)
  \/ \E draft \in {1, 2} : UnmarshalMarshaled(draft)

Spec == Init /\ [][Next]_vars

(***************************************************************************)
(* The hashing operations, called one after another (every read of         *)
(* useCache inside a call sees the flag's value at the call), with Marshal *)
(* and ToggleCache between them.                                           *)
(***************************************************************************)
HashTypes == {"uint64", "varsItem", "[][]byte", "*sampleItem", "string"}

HashCaseIds == {i \in CaseIds : Cases[i].noValue \/ Cases[i].rt \in HashTypes}

NextHash ==
  \/ \E i \in HashCaseIds : Marshal(i)
  \/ \E b \in BOOLEAN : ToggleCache(b)
  \/ \E i \in HashCaseIds : HashTreeRoot(i, <<useCache>>)
  \/ \E i \in HashCaseIds, c \in 0..MaxCapacity : HashTreeRootWithCapacity(i, c, <<useCache>>)

SpecHash == Init /\ [][NextHash]_vars

(***************************************************************************)
(* The operations called from several goroutines.  useCache is read       *)
(* without synchronization while other goroutines call ToggleCache: the    *)
(* first read inside a hashing call sees the flag as it is when the call   *)
(* starts, each later read sees either value (a read after the MaxReads-th *)
(* sees what that one saw).  The hash cache locks internally, so a lookup  *)
(* is atomic, but between two lookups of one call other goroutines' calls  *)
(* change it: besides the entries they add (the cache a call starts with), *)
(* their inserts may push out what the call was about to find.  prev keeps *)
(* what an earlier call observed: operation, input, outcome and returned   *)
(* bytes.                                                                  *)
(***************************************************************************)
MaxReads == 2

FlagSeqs == {f \in SeqsUpTo(BOOLEAN, MaxReads) : Len(f) = MaxReads /\ f[1] = useCache}

RaceCaseIds ==
  {i \in CaseIds : Cases[i].rt = "varsItem" \/ (Cases[i].rt = "[][]byte" /\ Cases[i].v.s # <<>>)}

Observed(call) ==
  [NoCall EXCEPT !.op = call.op, !.case = call.case, !.cap = call.cap, !.st = call.st,
                 !.buf = call.buf, !.root = call.root]

\* what a racing hashing call leaves in last: what it observed and the values
\* its reads of useCache saw
Raced(call) ==
  [Observed(call) EXCEPT
     !.flags = SubSeq(call.flags, 1,
                      IF call.reads < Len(call.flags) THEN call.reads ELSE Len(call.flags))]

\* the reads before which the cache is found emptied: none, or one of them
EvictSets == {{}} \cup {{k} : k \in 1..MaxReads}

ConcurrentMarshal(i) ==
  /\ last' = MarshalResult("Marshal", i)
  /\ \E keep \in BOOLEAN : prev' = IF keep THEN Observed(last) ELSE prev
  /\ UNCHANGED <<useCache, hashCache>>
  /\ UNCHANGED <<types, codecVars>>

ConcurrentHashTreeRoot(i, flags, evicts) ==
  LET h == HashCall("HashTreeRoot", i, 0, flags, evicts) IN
  /\ last' = Raced(h.res)
  /\ hashCache' = h.cache
  /\ \E keep \in BOOLEAN : prev' = IF keep THEN Observed(last) ELSE prev
  /\ UNCHANGED useCache
  /\ UNCHANGED <<types, codecVars>>

\* a call of another goroutine, of whose result nothing is kept
ConcurrentHashTreeRootWithCapacity(i, maxCapacity, flags, evicts) ==
  LET h == HashCall("HashTreeRootWithCapacity", i, maxCapacity, flags, evicts) IN
  /\ last' = [NoCall EXCEPT !.op = "HashTreeRootWithCapacity"]
  /\ hashCache' = h.cache
  /\ UNCHANGED <<useCache, prev>>
  /\ UNCHANGED <<types, codecVars>>

NextRace ==
  \/ \E i \in RaceCaseIds : ConcurrentMarshal(i)
  \/ \E b \in BOOLEAN : ToggleCache(b)
  \/ \E i \in RaceCaseIds, flags \in FlagSeqs, evicts \in EvictSets :
       ConcurrentHashTreeRoot(i, flags, evicts)
  \/ \E i \in RaceCaseIds, c \in 0..MaxCapacity, flags \in FlagSeqs, evicts \in EvictSets :
       ConcurrentHashTreeRootWithCapacity(i, c, flags, evicts)

SpecRace == Init /\ [][NextRace]_vars

(***************************************************************************)
(* The hashing operations on values of every shape the hashers dispatch    *)
(* on: vectors and lists of basic and of composite elements, containers,   *)
(* and shapes holding a part that cannot be hashed.                        *)
(***************************************************************************)
RootTypes ==
  { "[1]string", "[]string", "badItem", "[4]byte", "[0]byte", "[2]uint16", "[5]uint64",
    "[]uint16", "[]uint64", "[][2]byte", "[][]byte", "[]fixedItem", "fixedItem", "sampleItem",
    "varsItem" }

RootCaseIds == {i \in CaseIds : ~Cases[i].noValue /\ Cases[i].rt \in RootTypes}

NextRoots ==
  \/ \E i \in RootCaseIds : Marshal(i)
  \/ \E b \in BOOLEAN : ToggleCache(b)
  \/ \E i \in RootCaseIds : HashTreeRoot(i, <<useCache>>)
  \/ \E i \in RootCaseIds, c \in 0..MaxCapacity : HashTreeRootWithCapacity(i, c, <<useCache>>)

SpecRoots == Init /\ [][NextRoots]_vars

(***************************************************************************)
(* The hashing operations on vectors and containers alone.                 *)
(***************************************************************************)
CompositeTypes ==
  { "badItem", "[4]byte", "[0]byte", "[2]uint16", "[5]uint64", "fixedItem", "sampleItem",
    "varsItem" }

CompositeCaseIds == {i \in CaseIds : ~Cases[i].noValue /\ Cases[i].rt \in CompositeTypes}

NextComposites ==
  \/ \E b \in BOOLEAN : ToggleCache(b)
  \/ \E i \in CompositeCaseIds : HashTreeRoot(i, <<useCache>>)
  \/ \E i \in CompositeCaseIds, c \in 0..MaxCapacity :
        HashTreeRootWithCapacity(i, c, <<useCache>>)

SpecComposites == Init /\ [][NextComposites]_vars

(***************************************************************************)
(* The unmarshalers of one shape, called with an input frame and a start   *)
(* offset within it, as the unmarshaler of an enclosing value calls them.  *)
(***************************************************************************)
MaxSpare == 1

Spares == SeqsUpTo(InputBytes, MaxSpare)

ByteSliceUnmarshal(input, spare, startOffset) ==
  /\ startOffset <= Len(input)
  /\ last' =
       Then(newByteSliceUnmarshaler(input, spare, ZeroOf("[]byte"), "[]byte", startOffset),
            LAMBDA u :
              [NoCall EXCEPT !.op = "newByteSliceUnmarshaler", !.typ = "[]byte",
                             !.buf = input, !.spare = spare, !.start = startOffset,
                             !.st = u.st, !.w = u.w, !.idx = u.idx, !.calls = u.calls])
  /\ UNCHANGED <<useCache, hashCache, prev>>
  /\ UNCHANGED <<types, codecVars>>

MaxFrameLen == 4

Frames == SeqsUpTo({1, 2}, MaxFrameLen)

\* the destinations of newBasicSliceUmmarshaler: the Go type of the slice and
\* its descriptor, which differ when a field carries an ssz-size tag
SliceDests ==
  { <<"[]byte", "[]byte">>, <<"[]uint16", "[]uint16">>, <<"[][2]byte", "[][2]byte">>,
    <<"[][]byte", "[][2]byte">>, <<"[]fixedItem", "[]fixedItem">> }

BasicSliceUnmarshal(draft, input, dest, startOffset) ==
  /\ startOffset <= Len(input)
  /\ last' =
       Then(newBasicSliceUmmarshaler(draft, input, ZeroOf(dest[1]), dest[1], dest[2],
                                     startOffset),
            LAMBDA u :
              [NoCall EXCEPT !.op = "newBasicSliceUmmarshaler", !.rt = dest[1],
                             !.typ = dest[2], !.draft = draft, !.buf = input,
                             !.start = startOffset, !.st = u.st, !.w = u.w, !.idx = u.idx,
                             !.calls = u.calls])
  /\ UNCHANGED <<useCache, hashCache, prev>>
  /\ UNCHANGED <<types, codecVars>>

NextDecode ==
  \/ \E input \in Inputs, spare \in Spares, startOffset \in 0..MaxInputLen :
        ByteSliceUnmarshal(input, spare, startOffset)
  \/ \E draft \in {1, 2}, input \in Frames, dest \in SliceDests,
        startOffset \in 0..MaxFrameLen :
          BasicSliceUnmarshal(draft, input, dest, startOffset)

SpecDecode == Init /\ [][NextDecode]_vars

(***************************************************************************)
(* The codec cache (ssz_utils_cache.go).  The makers of the three          *)
(* functions of a record look up the codecs of the types a type is made    *)
(* of with cachedSSZUtilsNoAcquireLock, while the write lock is held.      *)
(***************************************************************************)
MaxGenerations == 2

MaxDepth == 3

\* the types a maker looks up for a type: the type a pointer points to, the
\* types of the fields of a struct in declared order
Children(t) ==
  IF Kind(t) = "struct" THEN [i \in 1..Len(structFields(t)) |-> structFields(t)[i].typ]
  ELSE IF Kind(t) = "ptr" THEN <<ElemT(t)>>
  ELSE <<>>

\* the types no maker has a branch for
Unsupported(t) == Kind(t) = "string"

\* the slot of a record that the n-th maker of generateSSZUtilsForType fills
MakerSlot(utils, n, f) ==
  IF n = 1 THEN [utils EXCEPT !.marshaler = f]
  ELSE IF n = 2 THEN [utils EXCEPT !.unmarshaler = f]
  ELSE [utils EXCEPT !.hasher = f]

\* a call of cachedSSZUtilsNoAcquireLock(typ): its position, the record
\* generateSSZUtilsForType is building, the maker running, the child the
\* maker looks up next and the records it was handed so far
Frame(typ, pc) ==
  [typ |-> typ, pc |-> pc, utils |-> ZeroUtils, maker |-> 1, k |-> 1, refs |-> <<>>]

Top(g) == goroutines[g].stack[Len(goroutines[g].stack)]

SetTop(th, f) == [th EXCEPT !.stack = [@ EXCEPT ![Len(th.stack)] = f]]

\* cachedSSZUtilsNoAcquireLock returns (h, err): to the maker of the calling
\* frame, which fails on an error and keeps the record otherwise, or to
\* cachedSSZUtils, which returns it after the deferred Unlock
Return(th, h, err) ==
  IF Len(th.stack) = 1
    THEN [th EXCEPT !.stack = <<>>, !.pc = "Unlock", !.ret = [h |-> h, err |-> err]]
    ELSE [th EXCEPT !.stack =
            Append(SubSeq(th.stack, 1, Len(th.stack) - 2),
                   IF err
                     THEN [th.stack[Len(th.stack) - 1] EXCEPT !.pc = "fail"]
                     ELSE [th.stack[Len(th.stack) - 1] EXCEPT !.refs = Append(@, h),
                                                              !.k = @ + 1])]

RecheckSkipped(cache, typ) == 0

\* utils := sszUtilsCache[typ] under the write lock
Recheck(cache, typ) == cache[typ]

NoSentinel(cache, typ, h) == cache

\* sszUtilsCache[typ] = new(sszUtils)
InstallSentinel(cache, typ, h) == [cache EXCEPT ![typ] = h]

StoreUtilsReplacing(recs, cache, typ, utils) ==
  [records |-> Append(recs, utils), cache |-> [cache EXCEPT ![typ] = Len(recs) + 1]]

\* *sszUtilsCache[typ] = *utils
StoreUtils(recs, cache, typ, utils) ==
  [records |-> [recs EXCEPT ![cache[typ]] = utils], cache |-> cache]

DeleteSkipped(cache, typ) == cache

\* delete(sszUtilsCache, typ)
Delete(cache, typ) == [cache EXCEPT ![typ] = 0]

hashVars == <<useCache, hashCache, last, prev>>

\* cachedSSZUtils(typ) is called
CachedSSZUtils(g, typ) ==
  /\ goroutines[g].pc = "idle"
  /\ generated[typ] < MaxGenerations
  /\ goroutines' = [goroutines EXCEPT ![g] = [@ EXCEPT !.pc = "RLock", !.typ = typ,
                                                        !.ret = NoRet]]
  /\ UNCHANGED <<sszUtilsCache, records, sszUtilsCacheMutex, generated>>
  /\ UNCHANGED <<types, hashVars>>

\* sszUtilsCacheMutex.RLock(): a reader waits while a writer holds the lock
\* or has announced itself
RLock(g) ==
  /\ goroutines[g].pc = "RLock"
  /\ sszUtilsCacheMutex.writer = 0
  /\ sszUtilsCacheMutex.pending = 0
  /\ sszUtilsCacheMutex' = [sszUtilsCacheMutex EXCEPT !.readers = @ \cup {g}]
  /\ goroutines' = [goroutines EXCEPT ![g] = [@ EXCEPT !.pc = "lookup"]]
  /\ UNCHANGED <<sszUtilsCache, records, generated>>
  /\ UNCHANGED <<types, hashVars>>

\* the optimistic read, RUnlock and the return of a record found
Lookup(g) ==
  /\ goroutines[g].pc = "lookup"
  /\ sszUtilsCacheMutex' = [sszUtilsCacheMutex EXCEPT !.readers = @ \ {g}]
  /\ goroutines' =
       [goroutines EXCEPT ![g] =
          IF sszUtilsCache[goroutines[g].typ] # 0
            THEN [@ EXCEPT !.pc = "idle",
                           !.ret = [h |-> sszUtilsCache[goroutines[g].typ], err |-> FALSE]]
            ELSE [@ EXCEPT !.pc = "Lock"]]
  /\ UNCHANGED <<sszUtilsCache, records, generated>>
  /\ UNCHANGED <<types, hashVars>>

\* sszUtilsCacheMutex.Lock(), first half: the writer gets ahead of the other
\* writers and announces itself, which keeps new readers out
Lock(g) ==
  /\ goroutines[g].pc = "Lock"
  /\ sszUtilsCacheMutex.writer = 0
  /\ sszUtilsCacheMutex.pending = 0
  /\ sszUtilsCacheMutex' = [sszUtilsCacheMutex EXCEPT !.pending = g]
  /\ goroutines' = [goroutines EXCEPT ![g] = [@ EXCEPT !.pc = "Locked"]]
  /\ UNCHANGED <<sszUtilsCache, records, generated>>
  /\ UNCHANGED <<types, hashVars>>

\* sszUtilsCacheMutex.Lock(), second half: the readers that held the lock have
\* left; cachedSSZUtilsNoAcquireLock(typ) is called
Locked(g) ==
  /\ goroutines[g].pc = "Locked"
  /\ sszUtilsCacheMutex.pending = g
  /\ sszUtilsCacheMutex.readers = {}
  /\ sszUtilsCacheMutex' = [sszUtilsCacheMutex EXCEPT !.writer = g, !.pending = 0]
  /\ goroutines' = [goroutines EXCEPT ![g] =
                      [@ EXCEPT !.pc = "inner", !.stack = <<Frame(goroutines[g].typ, "check")>>,
                                !.before = sszUtilsCache]]
  /\ UNCHANGED <<sszUtilsCache, records, generated>>
  /\ UNCHANGED <<types, hashVars>>

\* the check under the write lock: a record found is returned
CheckHit(g) ==
  /\ goroutines[g].pc = "inner"
  /\ Top(g).pc = "check"
  /\ Recheck(sszUtilsCache, Top(g).typ) # 0
  /\ goroutines' = [goroutines EXCEPT ![g] =
                      Return(@, Recheck(sszUtilsCache, Top(g).typ), FALSE)]
  /\ UNCHANGED <<sszUtilsCache, records, sszUtilsCacheMutex, generated>>
  /\ UNCHANGED <<types, hashVars>>

\* the check under the write lock: no record, a dummy one is put in the map
CheckMiss(g) ==
  /\ goroutines[g].pc = "inner"
  /\ Top(g).pc = "check"
  /\ Recheck(sszUtilsCache, Top(g).typ) = 0
  /\ records' = Append(records, ZeroUtils)
  /\ sszUtilsCache' = InstallSentinel(sszUtilsCache, Top(g).typ, Len(records) + 1)
  /\ goroutines' = [goroutines EXCEPT ![g] = SetTop(@, [Top(g) EXCEPT !.pc = "generate"])]
  /\ UNCHANGED <<sszUtilsCacheMutex, generated>>
  /\ UNCHANGED <<types, hashVars>>

\* generateSSZUtilsForType(typ) is called: utils = new(sszUtils)
Generate(g) ==
  /\ goroutines[g].pc = "inner"
  /\ Top(g).pc = "generate"
  /\ generated' = [generated EXCEPT ![Top(g).typ] = @ + 1]
  /\ goroutines' = [goroutines EXCEPT ![g] = SetTop(@, [Top(g) EXCEPT !.pc = "make"])]
  /\ UNCHANGED <<sszUtilsCache, records, sszUtilsCacheMutex>>
  /\ UNCHANGED <<types, hashVars>>

\* a maker finds no branch for the type: generateSSZUtilsForType returns the error
MakeFail(g) ==
  /\ goroutines[g].pc = "inner"
  /\ Top(g).pc = "make"
  /\ Unsupported(Top(g).typ)
  /\ goroutines' = [goroutines EXCEPT ![g] = SetTop(@, [Top(g) EXCEPT !.pc = "fail"])]
  /\ UNCHANGED <<sszUtilsCache, records, sszUtilsCacheMutex, generated>>
  /\ UNCHANGED <<types, hashVars>>

\* a maker looks up the codec of the next type the type is made of
MakeLookup(g) ==
  /\ goroutines[g].pc = "inner"
  /\ Top(g).pc = "make"
  /\ ~Unsupported(Top(g).typ)
  /\ Top(g).k <= Len(Children(Top(g).typ))
  /\ Len(goroutines[g].stack) < MaxDepth
  /\ goroutines' = [goroutines EXCEPT ![g] =
                      [@ EXCEPT !.stack = Append(@, Frame(Children(Top(g).typ)[Top(g).k],
                                                          "check"))]]
  /\ UNCHANGED <<sszUtilsCache, records, sszUtilsCacheMutex, generated>>
  /\ UNCHANGED <<types, hashVars>>

\* a maker returns its function, which holds the records looked up; the next
\* maker runs, or generateSSZUtilsForType returns utils
MakeDone(g) ==
  /\ goroutines[g].pc = "inner"
  /\ Top(g).pc = "make"
  /\ ~Unsupported(Top(g).typ)
  /\ Top(g).k > Len(Children(Top(g).typ))
  /\ goroutines' =
       [goroutines EXCEPT ![g] =
          SetTop(@, [Top(g) EXCEPT
                       !.utils = MakerSlot(@, Top(g).maker,
                                           [typ |-> Top(g).typ, refs |-> Top(g).refs]),
                       !.pc = IF Top(g).maker = 3 THEN "fill" ELSE "make",
                       !.maker = IF Top(g).maker = 3 THEN 3 ELSE @ + 1,
                       !.k = 1,
                       !.refs = <<>>])]
  /\ UNCHANGED <<sszUtilsCache, records, sszUtilsCacheMutex, generated>>
  /\ UNCHANGED <<types, hashVars>>

\* the dummy record is overwritten with the generated one and returned
Fill(g) ==
  /\ goroutines[g].pc = "inner"
  /\ Top(g).pc = "fill"
  /\ records' = StoreUtils(records, sszUtilsCache, Top(g).typ, Top(g).utils).records
  /\ sszUtilsCache' = StoreUtils(records, sszUtilsCache, Top(g).typ, Top(g).utils).cache
  /\ goroutines' = [goroutines EXCEPT ![g] = Return(@, sszUtilsCache'[Top(g).typ], FALSE)]
  /\ UNCHANGED <<sszUtilsCacheMutex, generated>>
  /\ UNCHANGED <<types, hashVars>>

\* generateSSZUtilsForType failed: the dummy key is removed, (nil, err) returned
Fail(g) ==
  /\ goroutines[g].pc = "inner"
  /\ Top(g).pc = "fail"
  /\ sszUtilsCache' = Delete(sszUtilsCache, Top(g).typ)
  /\ goroutines' = [goroutines EXCEPT ![g] = Return(@, 0, TRUE)]
  /\ UNCHANGED <<records, sszUtilsCacheMutex, generated>>
  /\ UNCHANGED <<types, hashVars>>

\* the deferred sszUtilsCacheMutex.Unlock(); cachedSSZUtils returns
Unlock(g) ==
  /\ goroutines[g].pc = "Unlock"
  /\ sszUtilsCacheMutex' = [sszUtilsCacheMutex EXCEPT !.writer = 0]
  /\ goroutines' = [goroutines EXCEPT ![g] =
                      [@ EXCEPT !.pc = "idle", !.before = [t \in CodecTypes |-> 0]]]
  /\ UNCHANGED <<sszUtilsCache, records, generated>>
  /\ UNCHANGED <<types, hashVars>>

\* the steps of a call that wait for no lock to be released to newcomers: once
\* one of them can be taken it stays so until it is taken
Run(g) ==
  \/ Lookup(g)
  \/ Locked(g)
  \/ CheckHit(g)
  \/ CheckMiss(g)
  \/ Generate(g)
  \/ MakeFail(g)
  \/ MakeLookup(g)
  \/ MakeDone(g)
  \/ Fill(g)
  \/ Fail(g)
  \/ Unlock(g)

NextCodec ==
  \/ \E g \in Goroutines, typ \in CodecRoots : CachedSSZUtils(g, typ)
  \/ \E g \in Goroutines : RLock(g)
  \/ \E g \in Goroutines : Lock(g)
  \/ \E g \in Goroutines : Run(g)

\* every goroutine keeps running, and sync.RWMutex starves neither a reader nor
\* a writer: a goroutine that can take the lock again and again gets it, and
\* an announced writer gets it once the readers have left
SpecCodec ==
  /\ Init
  /\ [][NextCodec]_vars
  /\ \A g \in Goroutines : WF_vars(Run(g)) /\ SF_vars(RLock(g)) /\ SF_vars(Lock(g))

(***************************************************************************)
(* Properties.                                                             *)
(***************************************************************************)

\* the cases whose shape the library supports (everything but the untyped nil
\* and the shapes holding a string)
Supported(i) ==
  ~Cases[i].noValue /\ Cases[i].rt \notin {"string", "badItem", "[1]string", "[]string"}

\* the types the dispatch of the given NewUnmarshal draft has a branch for
HasUnmarshaler(op, t) ==
  \/ op = "NewUnmarshal1" /\ Kind(t) \in {"slice", "array"} /\ Kind(ElemT(t)) = "uint8"
  \/ op = "NewUnmarshal2" /\ isBasicType(Kind(t))

\* C1: round trip.  Marshal of a value of a supported shape succeeds; the bytes
\* determine the value among the values of its type (so that some destination
\* equal to it can be recovered from them); and unmarshaling the bytes into a
\* fresh destination of the same type succeeds and leaves the destination equal
\* to the value.
C1_RoundTrip ==
  /\ (last.op = "Marshal" /\ Supported(last.case)) =>
       /\ last.st = "ok"
       /\ \A j \in CaseIds :
            (Cases[j].rt = Cases[last.case].rt /\ Cases[j].v # Cases[last.case].v)
              => MarshalResult("Marshal", j).buf # last.buf
  /\ (last.from # 0 /\ Supported(last.from) /\ HasUnmarshaler(last.op, Cases[last.from].rt)) =>
       /\ last.st = "ok"
       /\ last.w = Cases[last.from].v

\* the bytes of field value x of field f marshaled by itself, in a buffer of its
\* own size
FieldAlone(x, f) ==
  LET m == newMakeMarshaler(x, f.rtyp, f.typ, Zeros(determineSize(x, f.typ)), 0) IN
  IF m.st = "ok" THEN m.buf ELSE <<>>

RECURSIVE FixedPartLength(_, _, _)
FixedPartLength(v, fs, i) ==
  IF i > Len(fs) THEN 0
  ELSE (IF isVariableSizeType(fs[i].typ) THEN 4 ELSE Len(FieldAlone(v.s[i], fs[i])))
       + FixedPartLength(v, fs, i + 1)

\* the fixed part from field i on, the next tail starting at position tail
RECURSIVE FixedPart(_, _, _, _)
FixedPart(v, fs, i, tail) ==
  IF i > Len(fs) THEN <<>>
  ELSE IF isVariableSizeType(fs[i].typ)
       THEN LE(tail, 4) \o FixedPart(v, fs, i + 1, tail + Len(FieldAlone(v.s[i], fs[i])))
       ELSE FieldAlone(v.s[i], fs[i]) \o FixedPart(v, fs, i + 1, tail)

RECURSIVE Tails(_, _, _)
Tails(v, fs, i) ==
  IF i > Len(fs) THEN <<>>
  ELSE (IF isVariableSizeType(fs[i].typ) THEN FieldAlone(v.s[i], fs[i]) ELSE <<>>)
       \o Tails(v, fs, i + 1)

ContainerLayout(v, t) ==
  LET fs == structFields(t) IN
  FixedPart(v, fs, 1, FixedPartLength(v, fs, 1)) \o Tails(v, fs, 1)

\* C2: Marshal of a container returns, without error, the fixed part (per field
\* in declared order the field's bytes or the 4-byte little-endian position of
\* its tail) followed by the tails in field order, the first tail starting at
\* the fixed part's length; {Slot: 4, IsNew: true, Root: {1,2,3,4}} gives the 17
\* bytes slot, bool, offset 13, root.
C2_ContainerLayout ==
  /\ (last.op = "Marshal" /\ Supported(last.case) /\ Kind(Cases[last.case].rt) = "struct") =>
       /\ last.st = "ok"
       /\ last.buf = ContainerLayout(Cases[last.case].v, Cases[last.case].rt)
  /\ (last.op = "Marshal" /\ Cases[last.case] = Case("sampleItem", sampleValue(<<1, 2, 3, 4>>))) =>
       /\ last.st = "ok"
       /\ last.buf = <<4, 0, 0, 0, 0, 0, 0, 0, 1, 13, 0, 0, 0, 1, 2, 3, 4>>

\* the elements of list or vector v, from element i on, each marshaled by
\* itself under the element descriptor, one after another
RECURSIVE ElementsConcat(_, _, _, _)
ElementsConcat(v, rt, typ, i) ==
  IF i > Len(v.s) THEN <<>>
  ELSE FieldAlone(v.s[i], Fld("", ElemT(rt), ElemT(typ), 0)) \o ElementsConcat(v, rt, typ, i + 1)

\* a list or vector descriptor whose elements are fixed-size
FixedElements(typ) == Kind(typ) \in {"slice", "array"} /\ ~isVariableSizeType(ElemT(typ))

\* C3: a list or vector whose elements are fixed-size by its descriptor is
\* marshaled as its elements one after another with no offset header, whether
\* it is the marshaled value itself or the last field of a marshaled container
\* (where an ssz-size tag may override the descriptor): the container's output
\* then ends with these bytes; the field [{1,2},{3,4}] tagged ssz-size "?,2"
\* comes out as 1,2,3,4.
C3_FixedElementsConcatenated ==
  LET c == Cases[last.case] IN
  /\ (last.op = "Marshal" /\ Supported(last.case) /\ FixedElements(c.rt)) =>
       /\ last.st = "ok"
       /\ last.buf = ElementsConcat(c.v, c.rt, c.rt, 1)
  /\ (last.op = "Marshal" /\ Supported(last.case) /\ Kind(c.rt) = "struct") =>
       LET fs == structFields(c.rt)
           f == fs[Len(fs)]
           bytes == ElementsConcat(c.v.s[Len(fs)], f.rtyp, f.typ, 1)
       IN  FixedElements(f.typ) =>
             /\ last.st = "ok"
             /\ Len(last.buf) >= Len(bytes)
             /\ SubSeq(last.buf, Len(last.buf) - Len(bytes) + 1, Len(last.buf)) = bytes
  /\ (last.op = "Marshal" /\ Supported(last.case) /\ c.rt = "varsItem") =>
       /\ last.st = "ok"
       /\ last.buf = <<4, 0, 0, 0, 1, 2, 3, 4>>

\* the k-th 4-byte little-endian offset of a frame
OffsetAt(frame, k) == FromLE(SubSeq(frame, 4 * (k - 1) + 1, 4 * k))

\* the frame of a variable-size composite with N elements is well formed
WellFormedFrame(frame, N) ==
  N > 0 =>
    /\ Len(frame) >= 4 * N
    /\ OffsetAt(frame, 1) = 4 * N
    /\ \A k \in 1..(N - 1) : OffsetAt(frame, k) <= OffsetAt(frame, k + 1)
    /\ \A k \in 1..N : OffsetAt(frame, k) <= Len(frame)

\* a list whose elements are variable-size
VariableComposite(rt) == Kind(rt) = "slice" /\ isVariableSizeType(ElemT(rt))

\* C4: Marshal of a list of N variable-size elements (nil pointers and empty
\* lists among them) succeeds with a well-formed frame: the first offset is
\* 4*N, the offsets are nondecreasing and none exceeds the frame length; the
\* same holds of the frame of such a list marshaled as the field L of nestItem,
\* which starts at the position its offset slot (bytes 1..4) names.
C4_OffsetsWellFormed ==
  LET c == Cases[last.case] IN
  /\ (last.op = "Marshal" /\ Supported(last.case) /\ VariableComposite(c.rt)) =>
       /\ last.st = "ok"
       /\ WellFormedFrame(last.buf, Len(c.v.s))
  /\ (last.op = "Marshal" /\ Supported(last.case) /\ c.rt = "nestItem") =>
       /\ last.st = "ok"
       /\ LET start == FromLE(SubSeq(last.buf, 2, 5)) IN
          /\ start <= Len(last.buf)
          /\ WellFormedFrame(SubSeq(last.buf, start + 1, Len(last.buf)), Len(c.v.s[2].s))

NilPointerCase(i) == ~Cases[i].noValue /\ Kind(Cases[i].rt) = "ptr" /\ IsNil(Cases[i].v)

\* C6: a nil pointer marshals to the empty byte string, the pointer marshaler
\* writing no byte of the buffer it is handed and reporting no error; its hash
\* tree root is 32 zero bytes, whatever the hash cache holds, for every
\* capacity, with useCache read as true or as false.
C6_NilPointer ==
  /\ (last.op = "Marshal" /\ NilPointerCase(last.case)) =>
       /\ last.st = "ok"
       /\ last.buf = <<>>
  /\ (last.op = "HashTreeRoot" /\ NilPointerCase(last.case)) =>
       /\ last.st = "ok"
       /\ last.root = zeros32
  /\ \A s \in 0..2 :
       LET m == newmakePtrMarshaler(NilPtr, "*sampleItem", "*sampleItem", <<7, 7>>, s) IN
       m.st = "ok" /\ m.buf = <<7, 7>>
  /\ \A c \in 0..MaxCapacity, flag \in BOOLEAN :
       LET h == HashOrLookup(NilPtr, "*sampleItem", "*sampleItem", c, NewCtx(hashCache, <<flag>>))
       IN  h.st = "ok" /\ h.root = zeros32

\* HashTreeRoot of a nil pointer has returned while the hash cache held an
\* entry and the flag was off
C6_Witness ==
  /\ last.op = "HashTreeRoot"
  /\ NilPointerCase(last.case)
  /\ last.st = "ok"
  /\ last.calls = 1
  /\ hashCache # <<>>
  /\ ~useCache

\* what the caller of a hashing call gets: outcome and root
Returned(h) == <<h.res.st, h.res.root>>

\* C7: whatever earlier calls have left in the hash cache, HashTreeRoot(v) and
\* HashTreeRootWithCapacity(v, c) return the same outcome and the same root
\* with useCache true as with useCache false, for every value and capacity.
C7_CacheTransparency ==
  \A i \in HashCaseIds :
    /\ Returned(HashResult("HashTreeRoot", i, 0, <<TRUE>>))
         = Returned(HashResult("HashTreeRoot", i, 0, <<FALSE>>))
    /\ \A c \in 0..MaxCapacity :
         Returned(HashResult("HashTreeRootWithCapacity", i, c, <<TRUE>>))
           = Returned(HashResult("HashTreeRootWithCapacity", i, c, <<FALSE>>))

\* a HashTreeRootWithCapacity call with a non-zero capacity has been answered
\* from the hash cache, no hasher running
C7_Witness ==
  /\ last.op = "HashTreeRootWithCapacity"
  /\ last.cap > 0
  /\ last.st = "ok"
  /\ last.flags = <<TRUE>>
  /\ last.lookups = 1
  /\ last.calls = 0
  /\ last.root = HashResult("HashTreeRootWithCapacity", last.case, last.cap, <<FALSE>>).res.root

RejectedArgument ==
  \/ last.op \in {"Marshal", "HashTreeRoot", "HashTreeRootWithCapacity"}
       /\ Cases[last.case].noValue
  \/ last.op = "HashTreeRootWithCapacity" /\ Kind(Cases[last.case].rt) # "slice"

\* C9: Marshal, HashTreeRoot and HashTreeRootWithCapacity given no value, and
\* HashTreeRootWithCapacity given a value that is not a slice, return an error
\* with no buffer and an all-zero root, having run no marshaler or hasher, not
\* read useCache, not consulted the hash cache and left it as it was.
C9_ArgumentValidation ==
  RejectedArgument =>
    /\ last.st = "err"
    /\ last.buf = <<>>
    /\ last.root = zeros32
    /\ last.calls = 0
    /\ last.reads = 0
    /\ last.lookups = 0
    /\ last.cacheSame

\* HashTreeRootWithCapacity has rejected a value that is not a slice while the
\* hash cache was enabled and held an entry
C9_Witness ==
  /\ last.op = "HashTreeRootWithCapacity"
  /\ ~Cases[last.case].noValue
  /\ Kind(Cases[last.case].rt) = "struct"
  /\ last.st = "err"
  /\ useCache
  /\ hashCache # <<>>

\* destination value w of type t holds what the input says: marshaled again it
\* gives back the bytes at the start of the input
PopulatedFrom(w, t, input) ==
  LET m == newMakeMarshaler(w, t, t, Zeros(determineSize(w, t)), 0) IN
  /\ m.st = "ok"
  /\ Len(m.buf) <= Len(input)
  /\ m.buf = SubSeq(input, 1, Len(m.buf))

\* C10: NewUnmarshal (either draft) given no destination, a destination that is
\* not a pointer or a nil pointer returns an error, no unmarshaler having run
\* and no destination having been written; and when the first draft, whose
\* unmarshalers are in the source, returns no error, the destination holds the
\* input: a byte slice all of it.
C10_UnmarshalDestination ==
  /\ (last.op \in {"NewUnmarshal1", "NewUnmarshal2"} /\ last.dest # "pointer") =>
       /\ last.st = "err"
       /\ last.calls = 0
       /\ last.w = NilPtr
  /\ (last.op = "NewUnmarshal1" /\ last.st = "ok") =>
       /\ last.dest = "pointer"
       /\ PopulatedFrom(last.w, last.typ, last.buf)
       /\ last.typ = "[]byte" => RawBytes(last.w) = last.buf

\* the first draft has filled a byte slice from a two-byte input
C10_Witness ==
  /\ last.op = "NewUnmarshal1"
  /\ last.dest = "pointer"
  /\ last.typ = "[]byte"
  /\ last.st = "ok"
  /\ Len(last.buf) = 2
  /\ last.w = Bytes(last.buf)

\* the parts of value v of type rt that its hasher and its marshaler recurse
\* into: the elements of a vector or list, the fields of a container; each with
\* its Go type, its descriptor and the capacity it is hashed with
Parts(v, rt) ==
  LET kind == Kind(rt) IN
  IF kind \in {"array", "slice"}
  THEN [k \in 1..Len(v.s) |-> [v |-> v.s[k], rt |-> ElemT(rt), typ |-> ElemT(rt), cap |-> 0]]
  ELSE IF kind = "struct"
  THEN [k \in 1..Len(v.s) |->
          [v |-> v.s[k], rt |-> structFields(rt)[k].rtyp, typ |-> structFields(rt)[k].typ,
           cap |-> structFields(rt)[k].capacity]]
  ELSE <<>>

\* hashing the part alone returns an error
HashFails(part) ==
  newMakeHasher(part.v, part.rt, part.typ, part.cap, NewCtx(<<>>, <<FALSE>>)).st = "err"

\* marshaling the part alone, into a buffer of its size, returns an error
MarshalFails(part) ==
  newMakeMarshaler(part.v, part.rt, part.typ, Zeros(determineSize(part.v, part.typ)), 0).st = "err"

\* C11: all errors surface.  When hashing an element of a vector, an element
\* of a list or a field of a container returns an error, HashTreeRoot and
\* HashTreeRootWithCapacity of the whole return an error and no root; when
\* marshaling an element or a field returns an error, Marshal returns an error
\* and no bytes.
C11_ErrorsSurface ==
  LET c == Cases[last.case]
      parts == Parts(c.v, c.rt)
  IN
  /\ (/\ last.op \in {"HashTreeRoot", "HashTreeRootWithCapacity"}
      /\ \E k \in 1..Len(parts) : HashFails(parts[k])) =>
       /\ last.st = "err"
       /\ last.root = zeros32
  /\ (/\ last.op = "Marshal"
      /\ \E k \in 1..Len(parts) : MarshalFails(parts[k])) =>
       /\ last.st = "err"
       /\ last.buf = <<>>

(***************************************************************************)
(* Properties of the codec cache.                                          *)
(***************************************************************************)

\* the calls of cachedSSZUtilsNoAcquireLock of g that are past the check and
\* constructing the codec of their type
Constructing(g) ==
  {i \in 1..Len(goroutines[g].stack) : goroutines[g].stack[i].pc # "check"}

\* C12: codec construction terminates.  While a goroutine constructs codecs it
\* holds the write lock and waits for nothing: some step of its call can always
\* be taken.  Every type it is constructing has its dummy record in the map, so
\* that no type is under construction twice in the chain of recursive lookups
\* (a lookup of such a type finds the dummy and returns); and every call of
\* cachedSSZUtils, with any number of goroutines calling, eventually returns.
C12_ConstructionTerminates ==
  /\ [](\A g \in Goroutines :
          /\ goroutines[g].pc \in {"inner", "Unlock"} <=> sszUtilsCacheMutex.writer = g
          /\ goroutines[g].pc \in {"inner", "Unlock"} => ENABLED Run(g)
          /\ \A i \in Constructing(g) : sszUtilsCache[goroutines[g].stack[i].typ] # 0
          /\ \A i, j \in Constructing(g) :
                i # j => goroutines[g].stack[i].typ # goroutines[g].stack[j].typ)
  /\ \A g \in Goroutines : []<>(goroutines[g].pc = "idle")

\* a call for the container node has returned its record; the codec of *node,
\* built during the construction of node, holds the record its lookup of node
\* was handed
C12_RecursiveTypeBuilt ==
  \E g \in Goroutines :
    /\ goroutines[g].pc = "idle"
    /\ goroutines[g].typ = "node"
    /\ ~goroutines[g].ret.err
    /\ goroutines[g].ret.h # 0
    /\ goroutines[g].ret.h = sszUtilsCache["node"]
    /\ sszUtilsCache["*node"] # 0
    /\ records[sszUtilsCache["*node"]].marshaler.refs = <<sszUtilsCache["node"]>>
    /\ generated["node"] = 1

\* C13: ToggleCache changes the flag and nothing else: a step that changes
\* useCache leaves the hash cache and every result as they were.  A hashing
\* call whose reads of useCache all see false makes no hash-cache lookup and
\* leaves the hash cache as it was; a hasher runs for every read, and the root
\* returned is the one the hasher computes without any cache.
C13_ToggleFrame ==
  /\ [][useCache' # useCache => UNCHANGED <<hashCache, last, prev, codecVars>>]_vars
  /\ []((/\ last.op \in {"HashTreeRoot", "HashTreeRootWithCapacity"}
         /\ last.flags = <<FALSE>>) =>
          /\ last.lookups = 0
          /\ last.cacheSame
          /\ last.calls >= last.reads
          /\ last.reads > 0 =>
                /\ last.st = newMakeHasher(Cases[last.case].v, Cases[last.case].rt,
                                           Cases[last.case].rt, last.cap,
                                           NewCtx(<<>>, <<FALSE>>)).st
                /\ last.root = newMakeHasher(Cases[last.case].v, Cases[last.case].rt,
                                             Cases[last.case].rt, last.cap,
                                             NewCtx(<<>>, <<FALSE>>)).root)

\* after ToggleCache(false), with entries of earlier calls still in the hash
\* cache, HashTreeRoot has hashed a value and its parts, reading the flag for
\* each
C13_Witness ==
  /\ ~useCache
  /\ hashCache # <<>>
  /\ last.op = "HashTreeRoot"
  /\ last.flags = <<FALSE>>
  /\ last.st = "ok"
  /\ last.reads >= 2
  /\ last.lookups = 0

\* C14: failure cleanup.  When cachedSSZUtilsNoAcquireLock has returned an
\* error to cachedSSZUtils (the write lock still held), no record is returned,
\* the type asked for has no entry, and the map is the map the call found when
\* it took the write lock.
C14_FailureCleanup ==
  \A g \in Goroutines :
    (goroutines[g].pc = "Unlock" /\ goroutines[g].ret.err) =>
      /\ goroutines[g].ret.h = 0
      /\ sszUtilsCache[goroutines[g].typ] = 0
      /\ sszUtilsCache = goroutines[g].before

RECURSIVE Reaches(_, _)
\* the types reached from the types ts by n lookups of makers
Reaches(ts, n) ==
  IF n = 0 THEN ts
  ELSE Reaches(ts \cup UNION {{Children(t)[k] : k \in 1..Len(Children(t))} : t \in ts}, n - 1)

\* the types whose construction succeeds: no maker on the way fails
Buildable(t) == \A u \in Reaches({t}, Cardinality(CodecTypes)) : ~Unsupported(u)

\* the map holds for t a record that construction has filled
Stored(t) == sszUtilsCache[t] # 0 /\ records[sszUtilsCache[t]].hasher.typ = t

\* C15: one codec record per type, stored once.  generateSSZUtilsForType runs
\* at most once for a type whose construction succeeds, however the calls of
\* the goroutines interleave; a call that has returned a record has returned
\* the filled record the map holds for its type; and a record once stored is
\* neither replaced nor removed nor changed.
C15_OneRecordPerType ==
  /\ [](\A t \in CodecTypes : Buildable(t) => generated[t] <= 1)
  /\ [](\A g \in Goroutines :
          (goroutines[g].pc \in {"idle", "Unlock"} /\ goroutines[g].ret.h # 0) =>
             /\ ~goroutines[g].ret.err
             /\ goroutines[g].ret.h = sszUtilsCache[goroutines[g].typ]
             /\ Stored(goroutines[g].typ))
  /\ [][\A t \in CodecTypes :
          Stored(t) => /\ sszUtilsCache'[t] = sszUtilsCache[t]
                       /\ records'[sszUtilsCache[t]] = records[sszUtilsCache[t]]]_vars

\* both goroutines asked for node; the second found no record in its
\* optimistic read, found the one the first had built when it had the write
\* lock, and holds the same record as the first
C15_Witness ==
  /\ goroutines[1].pc = "idle"
  /\ goroutines[1].typ = "node"
  /\ goroutines[2].pc = "Unlock"
  /\ goroutines[2].typ = "node"
  /\ goroutines[2].before["node"] # 0
  /\ goroutines[2].ret.h = goroutines[1].ret.h
  /\ goroutines[1].ret.h # 0
  /\ generated["node"] = 1

\* some call is past the check for t and has not returned
UnderConstruction(t) ==
  \E g \in Goroutines : \E i \in Constructing(g) : goroutines[g].stack[i].typ = t

\* the function f, built by a maker for its type, holds for each type it
\* looked up whose construction succeeds the record the map holds for that
\* type, and that record is filled once its construction is over
HoldsCurrent(f) ==
  \A k \in 1..Len(f.refs) :
    (Buildable(Children(f.typ)[k]) /\ sszUtilsCache[Children(f.typ)[k]] # 0) =>
      /\ f.refs[k] = sszUtilsCache[Children(f.typ)[k]]
      /\ ~UnderConstruction(Children(f.typ)[k]) => Stored(Children(f.typ)[k])

\* C16: the identity of the dummy record is stable.  Every record handed to a
\* lookup, held by a function of a stored record or by a maker still running,
\* is the record the map holds for the type looked up; once that type's
\* construction has succeeded the record is filled, the generated functions
\* having been copied into it; and the map never exchanges the record of a
\* type for another.
C16_SentinelIdentity ==
  /\ [](\A h \in 1..Len(records) :
          /\ HoldsCurrent(records[h].marshaler)
          /\ HoldsCurrent(records[h].unmarshaler)
          /\ HoldsCurrent(records[h].hasher))
  /\ [](\A g \in Goroutines : \A i \in 1..Len(goroutines[g].stack) :
          /\ HoldsCurrent([typ |-> goroutines[g].stack[i].typ,
                           refs |-> goroutines[g].stack[i].refs])
          /\ HoldsCurrent(goroutines[g].stack[i].utils.marshaler)
          /\ HoldsCurrent(goroutines[g].stack[i].utils.unmarshaler))
  /\ [][\A t \in CodecTypes :
          (sszUtilsCache[t] # 0 /\ sszUtilsCache'[t] # 0) =>
             sszUtilsCache'[t] = sszUtilsCache[t]]_vars

\* node has been constructed: the functions of *node, built while node was
\* under construction, hold the record that was the dummy of node, the map
\* holds that record for node, and it is filled
C16_Witness ==
  /\ Stored("node")
  /\ Stored("*node")
  /\ ~UnderConstruction("node")
  /\ records[sszUtilsCache["*node"]].hasher.refs = <<sszUtilsCache["node"]>>
  /\ records[sszUtilsCache["node"]].hasher.refs = <<sszUtilsCache["uint8"], sszUtilsCache["*node"]>>
  /\ sszUtilsCache["node"] < sszUtilsCache["*node"]

(***************************************************************************)
(* Properties of the roots of lists, containers and vectors.               *)
(***************************************************************************)

\* the last call is a hashing call that reached the hasher of its value
Hashed == last.op \in {"HashTreeRoot", "HashTreeRootWithCapacity"} /\ last.reads > 0

\* the roots of the elements of the list or vector v, in index order, each
\* computed without the hash cache
ElementRoots(v, rt) == ElemRoots(v, rt, rt, 1, <<>>, NewCtx(<<>>, <<FALSE>>), TRUE)

\* what a hasher returns that merkleizes chunks under a limit and mixes in
\* the length of v
ListRoot(chunks, limit, v) ==
  IF bitwiseMerkleize(chunks, limit, TRUE).err THEN [st |-> "err", root |-> zeros32]
  ELSE [st |-> "ok",
        root |-> mixInLength(bitwiseMerkleize(chunks, limit, TRUE).root, LengthChunk(Len(v.s)))]

\* C17: the root of a list whose elements are not basic (containers, lists,
\* vectors) is the root of the element roots, in index order, merkleized under
\* the limit maxCapacity, or the element count when maxCapacity is 0, with the
\* element count mixed in; the empty list with maxCapacity 0 included.
C17_CompositeListRoot ==
  (/\ Hashed
   /\ Kind(Cases[last.case].rt) = "slice"
   /\ ~isBasicType(Kind(ElemT(Cases[last.case].rt)))
   /\ ElementRoots(Cases[last.case].v, Cases[last.case].rt).st = "ok") =>
    /\ last.st = ListRoot(ElementRoots(Cases[last.case].v, Cases[last.case].rt).roots,
                          IF last.cap # 0 THEN last.cap ELSE Len(Cases[last.case].v.s),
                          Cases[last.case].v).st
    /\ last.root = ListRoot(ElementRoots(Cases[last.case].v, Cases[last.case].rt).roots,
                            IF last.cap # 0 THEN last.cap ELSE Len(Cases[last.case].v.s),
                            Cases[last.case].v).root

\* the list hasher newMakeHasher selects for typ is newBasicSliceHasher
BasicSliceDispatch(typ) ==
  isBasicType(Kind(ElemT(typ))) \/ isBasicTypeArray(ElemT(typ), Kind(ElemT(typ)))

\* the chunks the hasher of the list v merkleizes
ListChunks(v, rt) ==
  IF BasicSliceDispatch(rt)
    THEN pack(BasicSliceLeaves(v, rt, rt, 1, <<>>, NewCtx(<<>>, <<FALSE>>)).roots)
    ELSE pack(ElementRoots(v, rt).roots)

\* the limit the hasher of the list v hands to bitwiseMerkleize
ListLimit(v, rt, maxCapacity) ==
  IF BasicSliceDispatch(rt) THEN BasicSliceLimit(rt, maxCapacity)
  ELSE CompositeSliceLimit(v, maxCapacity)

\* C18: when a list, of basic or of other elements, is hashed with
\* maxCapacity 0, the limit handed to bitwiseMerkleize is not smaller than the
\* number of chunks of the list.
C18_CountSubstitutes ==
  (/\ Hashed
   /\ last.cap = 0
   /\ Kind(Cases[last.case].rt) = "slice"
   /\ Len(Cases[last.case].v.s) > 0
   /\ BasicSliceDispatch(Cases[last.case].rt)
         \/ ElementRoots(Cases[last.case].v, Cases[last.case].rt).st = "ok") =>
    ListLimit(Cases[last.case].v, Cases[last.case].rt, 0)
      >= Len(ListChunks(Cases[last.case].v, Cases[last.case].rt))

\* the root of the i-th declared field of the container v, hashed on its own
\* with the capacity of the field's ssz-max, without the hash cache
FieldRoot(v, rt, i) ==
  newMakeHasher(v.s[i], structFields(rt)[i].rtyp, structFields(rt)[i].typ,
                structFields(rt)[i].capacity, NewCtx(<<>>, <<FALSE>>))

SerializedElements(v, rt) ==
  [i \in 1..Len(v.s) |->
     Raw(newMakeMarshaler(v.s[i], ElemT(rt), ElemT(rt),
                          Zeros(determineSize(v.s[i], ElemT(rt))), 0).buf)]

\* C20: the root of a vector of len basic elements of size elemSize is
\* bitwiseMerkleize of the packed serialized elements under the limit
\* ceil(len * elemSize / 32), for every len from 0 on.
C20_BasicVectorRoot ==
  (/\ Hashed
   /\ Kind(Cases[last.case].rt) = "array"
   /\ isBasicType(Kind(ElemT(Cases[last.case].rt)))) =>
    /\ last.st = "ok"
    /\ ~bitwiseMerkleize(pack(SerializedElements(Cases[last.case].v, Cases[last.case].rt)),
                         (Len(Cases[last.case].v.s) * ElemSize(Cases[last.case].rt) + 31) \div 32,
                         TRUE).err
    /\ last.root =
         bitwiseMerkleize(pack(SerializedElements(Cases[last.case].v, Cases[last.case].rt)),
                          (Len(Cases[last.case].v.s) * ElemSize(Cases[last.case].rt) + 31) \div 32,
                          TRUE).root

\* a vector of five 8-byte elements, which pack into two chunks, has been
\* hashed
C20_Witness ==
  /\ Hashed
  /\ Cases[last.case].rt = "[5]uint64"
  /\ Len(pack(SerializedElements(Cases[last.case].v, "[5]uint64"))) = 2
  /\ last.st = "ok"
  /\ last.root.kids # <<>>

(***************************************************************************)
(* Properties of the unmarshalers called at a start offset.                *)
(***************************************************************************)

\* C21: the byte-slice unmarshaler consumes the rest of its frame.  Called with
\* an input and a start offset within it, it returns no error and does not
\* panic, stores input[startOffset:len(input)] in the destination, never a
\* byte from behind the length of the input, and returns the cursor
\* len(input).
C21_ByteSliceConsumesFrame ==
  last.op = "newByteSliceUnmarshaler" =>
    /\ last.st = "ok"
    /\ last.w = Bytes(SubSeq(last.buf, last.start + 1, Len(last.buf)))
    /\ last.idx = Len(last.buf)

\* the serialized length of a value of the fixed-size type t
FixedWidth(t) == SizeOf(ZeroOf(t), t)

\* value v, described by the fixed-size type t, is what the bytes bs decode to
DecodedFrom(v, t, bs) ==
  newMakeMarshaler(v, t, t, Zeros(Len(bs)), 0).st = "ok"
  /\ newMakeMarshaler(v, t, t, Zeros(Len(bs)), 0).buf = bs

\* the call decoded a list of fixed-size elements from an input that is empty
\* or holds at least one element from the start offset on
FixedElementList ==
  /\ last.op = "newBasicSliceUmmarshaler"
  /\ ~isVariableSizeType(ElemT(last.typ))
  /\ Len(last.buf) = 0 \/ Len(last.buf) - last.start >= FixedWidth(ElemT(last.typ))

\* C22: a list of fixed-size elements is decoded element by element.  With w
\* the width of an element and count the number of input bytes from the
\* start offset on divided by w, the call succeeds, the destination holds
\* exactly count elements, element i being what the w bytes at
\* startOffset + i*w decode to, and the returned cursor is
\* startOffset + count*w; an empty input yields an empty list.
C22_FixedElementList ==
  FixedElementList =>
    /\ last.st = "ok"
    /\ Len(last.w.s) = (Len(last.buf) - last.start) \div FixedWidth(ElemT(last.typ))
    /\ \A i \in 1..Len(last.w.s) :
          DecodedFrom(last.w.s[i], ElemT(last.typ),
                      SubSeq(last.buf, last.start + (i - 1) * FixedWidth(ElemT(last.typ)) + 1,
                             last.start + i * FixedWidth(ElemT(last.typ))))
    /\ last.idx = last.start + Len(last.w.s) * FixedWidth(ElemT(last.typ))

(***************************************************************************)
(* Properties of the cursor of the marshalers.                             *)
(***************************************************************************)

\* a buffer of n bytes none of which a marshaler has written: 255 is a byte no
\* value of Cases serializes to
Untouched(n) == [i \in 1..n |-> 255]

\* the start offsets a marshaler is called with
StartOffsets == {0, 1}

\* the value the call was made with and the parts its marshaler recurses into
WholeAndParts(i) ==
  <<[v |-> Cases[i].v, rt |-> Cases[i].rt, typ |-> Cases[i].rt, cap |-> 0]>>
    \o Parts(Cases[i].v, Cases[i].rt)

\* the marshaler of the part, called at start offset s with a buffer that ends
\* where the part's bytes end
MarshaledAt(part, s) ==
  newMakeMarshaler(part.v, part.rt, part.typ, Untouched(s + determineSize(part.v, part.typ)), s)

\* result m of a marshaler called at s: the cursor is not before s and not
\* behind the buffer, every position from s up to the cursor is written and
\* no other
CursorAdvanced(m, s) ==
  /\ m.idx >= s
  /\ m.idx <= Len(m.buf)
  /\ \A k \in 1..Len(m.buf) : (m.buf[k] # 255) <=> (s < k /\ k <= m.idx)

\* C23: the cursor of a marshaler.  Whenever the marshaler of a value Marshal
\* was called with, or of one of its fields or elements, called at start
\* offset s, succeeds, it returns a cursor e >= s within the buffer, has
\* written exactly the positions from s up to e, each by one field or element
\* only, so that the field or element after it starts where it ended; a nil
\* pointer and an empty list included.
C23_MarshalCursor ==
  (last.op \in {"Marshal", "NewMarshal"} /\ ~Cases[last.case].noValue) =>
    \A k \in 1..Len(WholeAndParts(last.case)), s \in StartOffsets :
      MarshaledAt(WholeAndParts(last.case)[k], s).st = "ok" =>
        CursorAdvanced(MarshaledAt(WholeAndParts(last.case)[k], s), s)

(***************************************************************************)
(* Properties of the records the codec cache hands out.                    *)
(***************************************************************************)

\* record h has its three functions
Filled(h) ==
  /\ records[h].marshaler # NoFunc
  /\ records[h].unmarshaler # NoFunc
  /\ records[h].hasher # NoFunc

\* C24: no unfinished record leaves a construction.  Whenever no goroutine
\* holds the write lock, every entry of sszUtilsCache is a record with its
\* marshaler, unmarshaler and hasher set; a goroutine reading the map under
\* the read lock reads it while no goroutine holds the write lock; and every
\* record a call of cachedSSZUtils has returned has its three functions.
C24_NoUnfinishedRecord ==
  /\ sszUtilsCacheMutex.writer = 0 =>
       \A t \in CodecTypes : sszUtilsCache[t] # 0 => Filled(sszUtilsCache[t])
  /\ \A g \in Goroutines :
       /\ goroutines[g].pc = "lookup" =>
            g \in sszUtilsCacheMutex.readers /\ sszUtilsCacheMutex.writer = 0
       /\ (goroutines[g].pc = "idle" /\ goroutines[g].ret.h # 0) =>
            Filled(goroutines[g].ret.h)

\* a construction of badNode has failed and one of node has succeeded; a
\* goroutine holds the read lock and is about to be handed the record of node,
\* which another goroutine's call has returned
C24_Witness ==
  /\ sszUtilsCacheMutex.writer = 0
  /\ generated["badNode"] > 0
  /\ sszUtilsCache["badNode"] = 0
  /\ sszUtilsCache["*badNode"] # 0
  /\ \E g, h \in Goroutines :
       /\ goroutines[g].pc = "lookup"
       /\ goroutines[g].typ = "node"
       /\ sszUtilsCache["node"] # 0
       /\ goroutines[h].pc = "idle"
       /\ goroutines[h].ret.h = sszUtilsCache["node"]

====
